---- MODULE Spec2Model ----
(***************************************************************************)
(* A model of the markgit-editor backend core: the session registry        *)
(* (app/session_manager.py), the cleanup service (app/cleanup_service.py), *)
(* the git handlers' process-wide lock (app/routes.py), the OAuth device   *)
(* flow (app/auth/github_oauth.py), the in-memory token store              *)
(* (app/auth/token_store.py) and the rate limiter                          *)
(* (app/auth/rate_limiter.py).                                             *)
(*                                                                         *)
(* Each component has its own specification over the shared variables: a   *)
(* component's specification leaves the other components' variables at     *)
(* their initial values.                                                   *)
(***************************************************************************)
EXTENDS Integers, Sequences, FiniteSets, TLC

VARIABLES
    now,          \* datetime.now(), in abstract time units (hours for sessions, seconds elsewhere)
    sessions,     \* SessionManager.sessions: session id -> record
    disk,         \* the filesystem: existing directory path -> units of file data directly in it
    sessionsFile, \* .sessions/sessions.json: whether it exists, and the registry it holds
    nextId,       \* number of uuid4 values drawn so far (the next one is fresh)
    smLast,       \* the last SessionManager call made as a whole: its name and, for
                  \* create_session, the old session found
    tokens,       \* MemoryTokenStore._tokens, in dict order: <<[key, token, created_at, expires_at]>>
    tsLast,       \* the last MemoryTokenStore call: its name, its key, what it returned and what it logged
    rlMax,        \* the max_requests every is_allowed call passes (0 before the first call)
    rlWindow,     \* the window_seconds every is_allowed call passes (0 before the first call)
    rlRequests,   \* InMemoryRateLimiter._requests: key -> list of timestamps
    rlAllowed,    \* history: key -> the timestamps of all the calls that is_allowed allowed
    rlLast,       \* the last is_allowed call: its key, its time and what it returned
    deviceCodes,  \* the DeviceCode objects created so far, by device code; "stored" says
                  \* whether the object is in GitHubOAuthService.device_codes
    dcHist,       \* history, by device code: tokens returned, requests sent and status
                  \* changes made after the status had left "pending"
    polls,        \* the poll_access_token calls suspended in "await client.post"
    oaLast,       \* the last poll_access_token return: its device code, its result and the
                  \* provider's answer it got (None when it sent no request)
    gitLock,      \* git_operation_lock: locked, its waiters in order, and who holds it
    handlers,     \* the git requests in progress: kind, session id, base path, position
    currentPath,  \* _current_session_path.value of the event-loop thread
    gitLast,      \* the HTTP status of the last git request answered
    threads,      \* the threads that call SessionManager: position and local variables
    bgHist,       \* history of the cleanup thread's sweeps: races with foreground calls
    wsGit,        \* the git state of one workspace: .git, commits, the origin remote, the index
    files,        \* the workspace's files other than .git: name -> content (Absent when there is none)
    tempDir,      \* whether <workspace>_remote_temp exists
    cmds,         \* the subprocesses run by the last git_service call, in order
    wsLast,       \* the last git_service call: its name, what it found and what it returned
    running,      \* CleanupService.running
    loop,         \* the cleanup thread: its position in _cleanup_loop and the rounds left
                  \* of "for _ in range(self.cleanup_interval)"
    csHist,       \* history of the cleanup thread since stop(): sweeps and sleep steps
                  \* begun and ended
    status_result,          \* the lines of "git status -s" the last pretty_git_status call got
    status_result_for_show, \* the lines the last pretty_git_status call returned
    workerPath,   \* _current_session_path.value of each thread of the thread pool
    orphan,       \* a cleanup thread that an earlier start() started and that
                  \* self.cleanup_thread no longer refers to: its position
    gitRun        \* the last git_add() call made outside git_operation_lock: its thread,
                  \* its handler, whether git was started, its cwd, and the path that
                  \* setup_git_context set in the same request

smVars == <<sessions, disk, sessionsFile, nextId, smLast>>

tsVars == <<tokens, tsLast>>

rlVars == <<rlMax, rlWindow, rlRequests, rlAllowed, rlLast>>

oaVars == <<deviceCodes, dcHist, polls, oaLast>>

gitVars == <<gitLock, handlers, currentPath, gitLast>>

thVars == <<threads, bgHist>>

wsVars == <<wsGit, files, tempDir, cmds, wsLast>>

csVars == <<running, loop, csHist>>

fsVars == <<status_result, status_result_for_show>>

plVars == <<workerPath, gitRun>>

orVars == <<orphan>>

\* the variables of the other components
NotSM == <<tsVars, rlVars, oaVars, gitVars, thVars, wsVars, csVars, fsVars, plVars, orVars>>
NotTS == <<smVars, rlVars, oaVars, gitVars, thVars, wsVars, csVars, fsVars, plVars, orVars>>
NotRL == <<smVars, tsVars, oaVars, gitVars, thVars, wsVars, csVars, fsVars, plVars, orVars>>
NotOA == <<smVars, tsVars, rlVars, gitVars, thVars, wsVars, csVars, fsVars, plVars, orVars>>
NotGit == <<tsVars, rlVars, oaVars, thVars, wsVars, csVars, fsVars, plVars, orVars>>
NotTh == <<tsVars, rlVars, oaVars, gitVars, wsVars, csVars, fsVars, plVars, orVars>>
NotNow == <<smVars, tsVars, rlVars, oaVars, gitVars, thVars, wsVars, csVars, fsVars, plVars, orVars>>
NotWs == <<smVars, tsVars, rlVars, oaVars, gitVars, thVars, csVars, fsVars, plVars, orVars>>
NotCs == <<tsVars, rlVars, oaVars, gitVars, thVars, wsVars, fsVars, plVars, orVars>>
NotFs == <<now, smVars, tsVars, rlVars, oaVars, gitVars, thVars, wsVars, csVars, plVars, orVars>>
NotPl == <<now, smVars, tsVars, rlVars, oaVars, gitVars, thVars, wsVars, csVars, fsVars, orVars>>
NotOr == <<now, smVars, tsVars, rlVars, oaVars, gitVars, thVars, wsVars, csVars, fsVars, plVars>>

vars == <<now, smVars, tsVars, rlVars, oaVars, gitVars, thVars, wsVars, csVars, fsVars, plVars, orVars>>

----------------------------------------------------------------------------
(* Bounds of the model *)

MaxTime == 2      \* the clock of the token store and of the rate limiter runs from 0 to MaxTime (seconds)
MaxHours == 1     \* the clock of the session registry runs from 0 to MaxHours (hours)
MaxIds == 2       \* at most MaxIds session ids (uuid4 draws) per behaviour
MaxFileUnits == 1 \* the file written into a workspace has MaxFileUnits units (GB) of data
MaxSessions == 2  \* MemoryTokenStore(max_sessions): the capacity N of the store
MaxTtl == 1       \* set() is called with a ttl of 1..MaxTtl
MaxRequests == 2  \* is_allowed is called with a max_requests of 1..MaxRequests
MaxWindow == 2    \* is_allowed is called with a window_seconds of 1..MaxWindow
MaxCodes == 1     \* the provider issues at most MaxCodes device codes: 1..MaxCodes
MaxExpires == 1   \* the provider issues device codes with an expires_in of 1..MaxExpires

\* config.SESSION_TIMEOUT_HOURS and config.MAX_DISK_USAGE_GB (the defaults)
SESSION_TIMEOUT_HOURS == 1
MAX_DISK_USAGE_GB == 1

None == "None"

\* "no session": the None that get_session_by_user_id returns (ids start at 1)
NoId == 0

----------------------------------------------------------------------------
(* Paths.  A path is the sequence of its components below "/"; a user key  *)
(* (the X-User-Id header value) is the sequence of its "/"-separated       *)
(* segments.                                                               *)

\* config.BLOG_CACHE_PATH after os.path.normpath: an absolute directory
Root == <<"srv", "blog_cache">>

\* SessionManager.sessions_dir
SessionsDir == Root \o <<".sessions">>

\* the user keys the model sends as X-User-Id
UserKeys ==
    { <<"a">>, <<"b">>, <<"a", "..", "..">>, <<"a", "..", "user_b">> }

\* str(uuid.uuid4()) of the n-th draw
Uuid(n) == "sid" \o ToString(n)

IsPrefix(p, q) == Len(p) <= Len(q) /\ SubSeq(q, 1, Len(p)) = p

IsStrictDescendant(p, base) == IsPrefix(base, p) /\ Len(p) > Len(base)

\* os.path.normpath of an absolute path: "" and "." are dropped, ".." pops
\* the previous component and is dropped at "/"
RECURSIVE NormFrom(_, _)
NormFrom(comps, acc) ==
    IF comps = <<>> THEN acc
    ELSE LET c == Head(comps) IN
         IF c = "" \/ c = "." THEN NormFrom(Tail(comps), acc)
         ELSE IF c # ".." THEN NormFrom(Tail(comps), Append(acc, c))
         ELSE IF acc # <<>> THEN NormFrom(Tail(comps), SubSeq(acc, 1, Len(acc) - 1))
         ELSE NormFrom(Tail(comps), acc)

NormPath(comps) == NormFrom(comps, <<>>)

\* os.path.normpath(os.path.join(cache_base_path, f"user_{user_id}"))
SessionPath(key) ==
    NormPath(Root \o <<"user_" \o Head(key)>> \o Tail(key))

\* os.path.exists(path)
Exists(d, path) == path \in DOMAIN d

\* os.makedirs(path, exist_ok=True): the directory and its missing ancestors
MakeDirs(d, path) ==
    LET new == { SubSeq(path, 1, n) : n \in 0..Len(path) } \ DOMAIN d
    IN  [p \in DOMAIN d \cup new |-> IF p \in DOMAIN d THEN d[p] ELSE 0]

\* shutil.rmtree(path, ignore_errors=True): the directory and all below it
RmTree(d, path) ==
    [p \in { q \in DOMAIN d : ~IsPrefix(path, q) } |-> d[p]]

RECURSIVE SumUnits(_, _)
SumUnits(d, ps) ==
    IF ps = {} THEN 0
    ELSE LET p == CHOOSE q \in ps : TRUE IN d[p] + SumUnits(d, ps \ {p})

\* the os.walk loop of get_total_disk_usage for one session path
TreeSize(d, path) ==
    IF Exists(d, path) THEN SumUnits(d, { q \in DOMAIN d : IsPrefix(path, q) }) ELSE 0

----------------------------------------------------------------------------
(* SessionManager, one call at a time *)

\* the registry file after _save_sessions: it is rewritten when its directory
\* exists; otherwise open() fails, the failure is swallowed and there is no file
NoFile == [exists |-> FALSE, content |-> <<>>]

SaveSessions(s, d) ==
    IF Exists(d, SessionsDir) THEN [exists |-> TRUE, content |-> s] ELSE NoFile

\* get_session_by_user_id: the first record of the dict with this user_id
\* (the dict is in insertion order, which is the order of the ids)
SessionsOfUser(s, key) == { sid \in DOMAIN s : s[sid].user_id = key }

\* (the lookup finds nothing)
GetSessionByUserIdNone(s, key) == NoId

GetSessionByUserId(s, key) ==
    IF SessionsOfUser(s, key) = {} THEN NoId
    ELSE CHOOSE sid \in SessionsOfUser(s, key) :
            \A other \in SessionsOfUser(s, key) : sid <= other

\* delete_session(sid): [s, d, file, ok] after the call
DeleteSessionKeepRecord(s, d, file, sid) ==
    IF sid \notin DOMAIN s THEN [s |-> s, d |-> d, file |-> file, ok |-> FALSE]
    ELSE LET d2 == RmTree(d, s[sid].path)
         IN  [s |-> s, d |-> d2, file |-> SaveSessions(s, d2), ok |-> TRUE]

\* (the rmtree left out)
DeleteSessionKeepTree(s, d, file, sid) ==
    IF sid \notin DOMAIN s THEN [s |-> s, d |-> d, file |-> file, ok |-> FALSE]
    ELSE LET s2 == [x \in DOMAIN s \ {sid} |-> s[x]]
         IN  [s |-> s2, d |-> d, file |-> SaveSessions(s2, d), ok |-> TRUE]

DeleteSessionResult(s, d, file, sid) ==
    IF sid \notin DOMAIN s THEN [s |-> s, d |-> d, file |-> file, ok |-> FALSE]
    ELSE LET d2 == RmTree(d, s[sid].path)
             s2 == [x \in DOMAIN s \ {sid} |-> s[x]]
         IN  [s |-> s2, d |-> d2, file |-> SaveSessions(s2, d2), ok |-> TRUE]

\* the record create_session stores (created_at, which no code reads, is left out)
NewRecord(key, path) ==
    [user_id |-> key, path |-> path, last_access |-> now,
     git_repo |-> "", initialized |-> FALSE]

\* what is kept of the last call: its name, the old session create_session
\* found, the argument of delete_session (a session id), cleanup_expired_sessions
\* (max_age_hours) or cleanup_disk_space (max_gb), its result (True/False or a
\* count) and, for cleanup_disk_space, the sessions deleted in order, each with
\* the usage measured just before
Call(op, old, arg, ok, count, log) ==
    [op |-> op, old |-> old, arg |-> arg, ok |-> ok, count |-> count, log |-> log]

\* create_session(user_id, clean_old) with user_id given
CreateSession(key, clean_old) ==
    /\ nextId < MaxIds
    /\ LET sid == nextId + 1
           path == SessionPath(key)
           old == IF clean_old THEN GetSessionByUserId(sessions, key) ELSE NoId
           r == IF old = NoId
                   THEN [s |-> sessions, d |-> disk, file |-> sessionsFile, ok |-> FALSE]
                   ELSE DeleteSessionResult(sessions, disk, sessionsFile, old)
           s2 == [x \in DOMAIN r.s \cup {sid} |->
                    IF x = sid THEN NewRecord(key, path) ELSE r.s[x]]
           d2 == MakeDirs(r.d, path)
       IN  /\ sessions' = s2
           /\ disk' = d2
           /\ sessionsFile' = SaveSessions(s2, d2)
           /\ nextId' = sid
           /\ smLast' = Call("create", old, 0, TRUE, 0, <<>>)
    /\ UNCHANGED <<now, NotSM>>

\* create_session(None, clean_old=False): the route without an X-User-Id
\* header; the user key is the new session id
CreateAnonymous ==
    /\ nextId < MaxIds
    /\ LET sid == nextId + 1
           key == <<Uuid(sid)>>
           path == SessionPath(key)
           s2 == [x \in DOMAIN sessions \cup {sid} |->
                    IF x = sid THEN NewRecord(key, path) ELSE sessions[x]]
           d2 == MakeDirs(disk, path)
       IN  /\ sessions' = s2
           /\ disk' = d2
           /\ sessionsFile' = SaveSessions(s2, d2)
           /\ nextId' = sid
           /\ smLast' = Call("create", NoId, 0, TRUE, 0, <<>>)
    /\ UNCHANGED <<now, NotSM>>

\* delete_session(sid), for an id that was handed out
DeleteSession(sid) ==
    /\ LET r == DeleteSessionResult(sessions, disk, sessionsFile, sid)
       IN  /\ sessions' = r.s
           /\ disk' = r.d
           /\ sessionsFile' = r.file
           /\ smLast' = Call("delete", NoId, sid, r.ok, 0, <<>>)
    /\ UNCHANGED <<now, nextId, NotSM>>

\* get_session_path(sid): the path of a valid session, bumping last_access
GetSessionPath(sid) ==
    /\ IF sid \in DOMAIN sessions /\ Exists(disk, sessions[sid].path)
          THEN /\ sessions' = [sessions EXCEPT ![sid].last_access = now]
               /\ sessionsFile' = SaveSessions(sessions', disk)
          ELSE /\ UNCHANGED <<sessions, sessionsFile>>
    /\ smLast' = Call("path", NoId, 0, TRUE, 0, <<>>)
    /\ UNCHANGED <<now, disk, nextId, NotSM>>

\* a file handler stores a file in a session's workspace: the workspace then
\* holds MaxFileUnits units of data
WriteFile(sid) ==
    /\ sid \in DOMAIN sessions
    /\ Exists(disk, sessions[sid].path)
    /\ disk[sessions[sid].path] < MaxFileUnits
    /\ disk' = [disk EXCEPT ![sessions[sid].path] = MaxFileUnits]
    /\ smLast' = Call("write", NoId, 0, TRUE, 0, <<>>)
    /\ UNCHANGED <<now, sessions, sessionsFile, nextId, NotSM>>

\* the ids of a registry in dict order (insertion order: ascending ids)
RECURSIVE IdsInOrder(_)
IdsInOrder(ids) ==
    IF ids = {} THEN <<>>
    ELSE LET m == CHOOSE x \in ids : \A y \in ids : x <= y
         IN  <<m>> \o IdsInOrder(ids \ {m})

\* the loop "for session_id in ...: if self.delete_session(session_id): count += 1"
RECURSIVE DeleteAll(_, _, _, _, _)
DeleteAll(todo, s, d, file, count) ==
    IF todo = <<>> THEN [s |-> s, d |-> d, file |-> file, count |-> count]
    ELSE LET r == DeleteSessionResult(s, d, file, Head(todo))
         IN  DeleteAll(Tail(todo), r.s, r.d, r.file, IF r.ok THEN count + 1 ELSE count)

\* the sessions cleanup_expired_sessions(h) collects: last_access < now - h
ExpiredSessions(s, h) == { sid \in DOMAIN s : s[sid].last_access < now - h }

\* cleanup_expired_sessions(max_age_hours)
CleanupExpiredSessions(h) ==
    /\ LET r == DeleteAll(IdsInOrder(ExpiredSessions(sessions, h)),
                          sessions, disk, sessionsFile, 0)
       IN  /\ sessions' = r.s
           /\ disk' = r.d
           /\ sessionsFile' = r.file
           /\ smLast' = Call("expired", NoId, h, TRUE, r.count, <<>>)
    /\ UNCHANGED <<now, nextId, NotSM>>

\* get_total_disk_usage: every record's tree is walked, so a directory shared
\* by two records is counted twice
RECURSIVE TotalDiskUsage(_, _, _)
TotalDiskUsage(s, d, ids) ==
    IF ids = {} THEN 0
    ELSE LET x == CHOOSE y \in ids : TRUE
         IN  TreeSize(d, s[x].path) + TotalDiskUsage(s, d, ids \ {x})

GetTotalDiskUsage(s, d) == TotalDiskUsage(s, d, DOMAIN s)

\* (the sort key left out: dict order)
SortedByDictOrder(s, ids) == IdsInOrder(ids)

\* sorted(self.sessions.items(), key=last_access): stable, ties in dict order
RECURSIVE SortedByLastAccess(_, _)
SortedByLastAccess(s, ids) ==
    IF ids = {} THEN <<>>
    ELSE LET m == CHOOSE x \in ids :
                    \A y \in ids : \/ s[x].last_access < s[y].last_access
                                   \/ s[x].last_access = s[y].last_access /\ x <= y
         IN  <<m>> \o SortedByLastAccess(s, ids \ {m})

\* the eviction loop of cleanup_disk_space over the sorted snapshot
RECURSIVE EvictLoop(_, _, _, _, _, _, _)
EvictLoop(todo, max, s, d, file, count, log) ==
    IF todo = <<>> \/ GetTotalDiskUsage(s, d) <= max
       THEN [s |-> s, d |-> d, file |-> file, count |-> count, log |-> log]
       ELSE LET r == DeleteSessionResult(s, d, file, Head(todo))
            IN  EvictLoop(Tail(todo), max, r.s, r.d, r.file,
                          IF r.ok THEN count + 1 ELSE count,
                          Append(log, [sid |-> Head(todo),
                                       usage |-> GetTotalDiskUsage(s, d)]))

\* cleanup_disk_space(max_gb)
CleanupDiskSpace(max) ==
    /\ LET r == IF GetTotalDiskUsage(sessions, disk) <= max
                   THEN [s |-> sessions, d |-> disk, file |-> sessionsFile, count |-> 0,
                         log |-> <<>>]
                   ELSE EvictLoop(SortedByLastAccess(sessions, DOMAIN sessions), max,
                                  sessions, disk, sessionsFile, 0, <<>>)
       IN  /\ sessions' = r.s
           /\ disk' = r.d
           /\ sessionsFile' = r.file
           /\ smLast' = Call("disk", NoId, max, TRUE, r.count, r.log)
    /\ UNCHANGED <<now, nextId, NotSM>>

\* the clock advances by an hour
TickHour ==
    /\ now < MaxHours
    /\ now' = now + 1
    /\ UNCHANGED NotNow

\* the clock advances by a second
Tick ==
    /\ now < MaxTime
    /\ now' = now + 1
    /\ UNCHANGED NotNow

----------------------------------------------------------------------------
(* The session registry used by one caller at a time *)

\* the state after SessionManager.__init__ on an empty cache directory
InitSM ==
    /\ sessions = <<>>
    /\ disk = [p \in { SubSeq(SessionsDir, 1, n) : n \in 0..Len(SessionsDir) } |-> 0]
    /\ sessionsFile = NoFile
    /\ nextId = 0
    /\ smLast = Call("init", NoId, 0, FALSE, 0, <<>>)

\* MemoryTokenStore.__init__
InitTS ==
    /\ tokens = <<>>
    /\ tsLast = [op |-> "init", key |-> None, ret |-> None, evicted |-> None,
                 expired |-> FALSE]

\* the client addresses that call GET /auth/device-code
RLKeys == {"ip1", "ip2"}

\* InMemoryRateLimiter.__init__ (a defaultdict(list): every key reads as [])
InitRL ==
    /\ rlMax = 0
    /\ rlWindow = 0
    /\ rlRequests = [k \in RLKeys |-> <<>>]
    /\ rlAllowed = [k \in RLKeys |-> <<>>]
    /\ rlLast = [op |-> "init", key |-> None, at |-> 0, ok |-> FALSE, retry |-> 0]

\* the requests that may poll at the same time
Pollers == {"p1", "p2"}

\* a request that is not inside poll_access_token
Idle == [code |-> 0, late |-> FALSE]

\* GitHubOAuthService.__init__
InitOA ==
    /\ deviceCodes = <<>>
    /\ dcHist = <<>>
    /\ polls = [p \in Pollers |-> Idle]
    /\ oaLast = [code |-> 0, token |-> None, error |-> None, late |-> FALSE, answer |-> None]

\* the git requests that may be in progress at the same time
Handlers == {"h1", "h2"}

NoHandler == "None"

\* a request slot with no request in progress
\* _current_session_path before any set_current_session_path
NoPath == <<>>

NoRequest == [kind |-> None, sid |-> NoId, path |-> NoPath, pc |-> "idle"]

\* routes.py at import: git_operation_lock = asyncio.Lock()
InitGit ==
    /\ gitLock = [locked |-> FALSE, waiters |-> <<>>, holder |-> NoHandler]
    /\ handlers = [h \in Handlers |-> NoRequest]
    /\ currentPath = NoPath
    /\ gitLast = 0

\* the threadpool threads that run the create_session route, and the thread
\* of CleanupService._cleanup_loop
Foreground == {"t1", "t2"}
Cleaner == "bg"
Threads == Foreground \cup {Cleaner}

\* a thread that is not inside a SessionManager call
IdleThread ==
    [pc |-> "idle", key |-> <<>>, sid |-> NoId, target |-> NoId, path |-> NoPath,
     after |-> "idle", todo |-> <<>>, cutoff |-> 0, used |-> 0, left |-> 0, pos |-> NoId]

InitTh ==
    /\ threads = [t \in Threads |-> IdleThread]
    /\ bgHist = [startId |-> NoId, iterRaced |-> FALSE, removedNew |-> FALSE]

\* the names and contents of the files of the workspace: a file is absent,
\* holds what the editor wrote, or holds what the remote repository has
FileNames == {"a.md", "b.md"}
EditedNames == {"a.md"}
Absent == 0
LocalText == 1
RemoteText == 2
NoFiles == [f \in FileNames |-> Absent]

\* no stash entry
NoStash == [saved |-> FALSE, base |-> NoFiles, files |-> NoFiles]

\* a workspace right after create_session: an empty directory and no git_repo
\* in the session record; config.BLOG_GIT_SSH is left at its default, ""
InitWs ==
    /\ wsGit = [git |-> FALSE, commit |-> FALSE, origin |-> FALSE, url |-> FALSE,
               head |-> NoFiles, index |-> NoFiles, stash |-> NoStash, identity |-> FALSE]
    /\ files = NoFiles
    /\ tempDir = FALSE
    /\ cmds = <<>>
    /\ wsLast = [op |-> "none", result |-> "none", found |-> [fetch |-> "none", hook |-> "none"],
                 detail |-> "none"]

\* the cleanup service after CleanupService(): not running, no thread
InitCs ==
    /\ running = FALSE
    /\ loop = [pc |-> "none", left |-> 0]
    /\ csHist = [stopped |-> FALSE, sweepsBegun |-> 0, sweepsEnded |-> 0,
                 sleepsBegun |-> 0, sleepsEnded |-> 0, steps |-> 0]

InitFs ==
    /\ status_result = <<>>
    /\ status_result_for_show = <<>>

Workers == {"w1", "w2"}

NoRun == [by |-> None, kind |-> None, ran |-> FALSE, cwd |-> NoPath, set |-> NoPath, code |-> 0]

InitPl ==
    /\ workerPath = [w \in Workers |-> NoPath]
    /\ gitRun = NoRun

InitOr == orphan = [pc |-> "none", left |-> 0]

Init ==
    /\ now = 0
    /\ InitSM
    /\ InitTS
    /\ InitRL
    /\ InitOA
    /\ InitGit
    /\ InitTh
    /\ InitWs
    /\ InitCs
    /\ InitFs
    /\ InitPl
    /\ InitOr

Ids == 1..MaxIds

NextSM ==
    \/ \E key \in UserKeys : CreateSession(key, TRUE)
    \/ CreateAnonymous
    \/ \E sid \in Ids : DeleteSession(sid)
    \/ \E sid \in Ids : GetSessionPath(sid)
    \/ \E sid \in Ids : WriteFile(sid)
    \/ \E h \in 0..SESSION_TIMEOUT_HOURS : CleanupExpiredSessions(h)
    \/ \E max \in 0..MAX_DISK_USAGE_GB : CleanupDiskSpace(max)
    \/ TickHour

SpecSM == Init /\ [][NextSM]_vars

\* C1: after any series of create_session(u, clean_old=True), delete_session,
\* cleanup_expired_sessions and cleanup_disk_space calls made one at a time,
\* the registry holds at most one record per user key; and right after a
\* create_session that found an old session of the user, the old record is
\* gone and the user's workspace directory holds none of the old data.
C1_SingleSessionPerUser ==
    /\ \A s1 \in DOMAIN sessions : \A s2 \in DOMAIN sessions :
          sessions[s1].user_id = sessions[s2].user_id => s1 = s2
    /\ (smLast.op = "create" /\ smLast.old # NoId) =>
          /\ smLast.old \notin DOMAIN sessions
          /\ nextId \in DOMAIN sessions
          /\ Exists(disk, sessions[nextId].path)
          /\ disk[sessions[nextId].path] = 0

\* a create_session has just replaced the old session of user "a", and the
\* new record is the only one in the registry
C1_Witness ==
    /\ smLast.op = "create"
    /\ smLast.old # NoId
    /\ nextId \in DOMAIN sessions
    /\ sessions[nextId].user_id = <<"a">>
    /\ Cardinality(DOMAIN sessions) = 1

\* C4: the workspace path of every session record is a strict descendant of
\* the cache root, for every user key that create_session accepts.
C4_PathUnderRoot ==
    \A sid \in DOMAIN sessions : IsStrictDescendant(sessions[sid].path, Root)

\* C40: the sessions of two different user keys never share a workspace:
\* their paths differ and neither lies inside the other, so that removing the
\* directory of one leaves the directory of the other.
C40_DistinctKeysDistinctWorkspaces ==
    \A s1 \in DOMAIN sessions, s2 \in DOMAIN sessions :
        sessions[s1].user_id # sessions[s2].user_id
           => ~IsPrefix(sessions[s1].path, sessions[s2].path)

\* the directory tree at path is the same in d1 and d2
SameTree(d1, d2, path) ==
    /\ { q \in DOMAIN d1 : IsPrefix(path, q) } = { q \in DOMAIN d2 : IsPrefix(path, q) }
    /\ \A q \in DOMAIN d1 : IsPrefix(path, q) => d1[q] = d2[q]

\* C16: cleanup_disk_space(max) deletes nothing when the usage is at or below
\* max; started above max it deletes sessions in ascending last_access order,
\* each one only while the usage is still above max and no session with an
\* older last_access is left in the registry, and it ends with the usage at or
\* below max or with no session left.
C16_EvictsOldestFirstUntilUnderCeiling ==
    [][ \A max \in 0..MAX_DISK_USAGE_GB :
          (smLast'.op = "disk" /\ smLast'.arg = max /\ now' = now) =>
             LET log == smLast'.log
                 gone(i) == { log[j].sid : j \in 1..(i - 1) }
             IN  /\ GetTotalDiskUsage(sessions, disk) <= max =>
                       log = <<>> /\ sessions' = sessions /\ disk' = disk
                 /\ \A i \in DOMAIN log :
                       /\ log[i].sid \in DOMAIN sessions \ gone(i)
                       /\ log[i].usage > max
                       /\ \A k \in DOMAIN sessions \ gone(i) :
                             sessions[log[i].sid].last_access <= sessions[k].last_access
                 /\ DOMAIN sessions' = DOMAIN sessions \ gone(Len(log) + 1)
                 /\ smLast'.count = Len(log)
                 /\ \/ GetTotalDiskUsage(sessions', disk') <= max
                    \/ DOMAIN sessions' = {} ]_vars

\* cleanup_disk_space has deleted the older of two sessions and kept the newer
\* one, the usage being under the ceiling after the first deletion
C16_Witness ==
    /\ smLast.op = "disk"
    /\ Len(smLast.log) = 1
    /\ smLast.log[1].usage > smLast.arg
    /\ \E k \in DOMAIN sessions : sessions[k].last_access > 0

\* C17: after cleanup_expired_sessions(h), no session with last_access earlier
\* than now - h is in the registry, every other session is there with its
\* record and its directory tree unchanged, and the count returned is the
\* number of sessions removed.
C17_SweepRemovesExactlyExpired ==
    [][ \A h \in 0..SESSION_TIMEOUT_HOURS :
          (smLast'.op = "expired" /\ smLast'.arg = h /\ now' = now) =>
             /\ DOMAIN sessions' =
                   { sid \in DOMAIN sessions : ~(sessions[sid].last_access < now - h) }
             /\ \A sid \in DOMAIN sessions' :
                   /\ sessions'[sid] = sessions[sid]
                   /\ SameTree(disk, disk', sessions[sid].path)
             /\ smLast'.count = Cardinality(DOMAIN sessions \ DOMAIN sessions') ]_vars

\* C19: delete_session of an id in the registry removes the session's record
\* and directory tree and returns True; delete_session of an id that is not
\* (or no longer) in the registry returns False and changes neither the
\* registry nor the disk; an id that was removed never comes back.
C19_DeleteSessionIdempotent ==
    [][ /\ \A sid \in Ids :
            (smLast'.op = "delete" /\ smLast'.arg = sid /\ now' = now) =>
               IF sid \in DOMAIN sessions
                  THEN /\ smLast'.ok
                       /\ DOMAIN sessions' = DOMAIN sessions \ {sid}
                       /\ \A x \in DOMAIN sessions' : sessions'[x] = sessions[x]
                       /\ \A q \in DOMAIN disk' : ~IsPrefix(sessions[sid].path, q)
                  ELSE /\ ~smLast'.ok
                       /\ sessions' = sessions
                       /\ disk' = disk
        /\ \A sid \in 1..nextId : sid \notin DOMAIN sessions => sid \notin DOMAIN sessions'
      ]_vars

\* a delete_session has returned False for an id that was handed out, while
\* another session is in the registry
C19_Witness ==
    /\ smLast.op = "delete"
    /\ ~smLast.ok
    /\ smLast.arg <= nextId
    /\ DOMAIN sessions # {}

\* the sessions of the registry that belong to the user of the session that
\* a create_session call has just stored under the fresh id
FirstSessions == { sid \in DOMAIN sessions : sessions[sid].user_id = sessions'[nextId'].user_id }

\* C20 as stated: after a second create_session(u, clean_old=True) the new id
\* differs from the first, the first id is not in the registry and the first
\* session's directory does not exist.
C20_FirstDirectoryGone ==
    [][ (smLast'.op = "create" /\ nextId' = nextId + 1) =>
          \A first \in FirstSessions :
             /\ first # nextId'
             /\ first \notin DOMAIN sessions'
             /\ ~Exists(disk', sessions[first].path) ]_vars

\* C20 amended: the new id is fresh, the first id is not in the registry, and
\* the first session's directory tree has been removed: its path, which is
\* also the path of the new session, is an empty directory.
C20_FirstDirectoryEmptied ==
    [][ (smLast'.op = "create" /\ nextId' = nextId + 1) =>
          /\ nextId' \notin DOMAIN sessions
          /\ nextId' \in DOMAIN sessions'
          /\ \A first \in FirstSessions :
                /\ first # nextId'
                /\ first \notin DOMAIN sessions'
                /\ sessions'[nextId'].path = sessions[first].path
                /\ Exists(disk', sessions[first].path)
                /\ \A q \in DOMAIN disk' :
                      IsPrefix(sessions[first].path, q) =>
                         q = sessions[first].path /\ disk'[q] = 0 ]_vars

\* a second create_session for the user key "a/../.." has replaced the first
C20_Witness ==
    /\ smLast.op = "create"
    /\ smLast.old # NoId
    /\ nextId \in DOMAIN sessions
    /\ sessions[nextId].user_id = <<"a", "..", "..">>

----------------------------------------------------------------------------
(* MemoryTokenStore *)

\* the OAuth session ids in use: one more than the store can hold
TokenKeys == { "k" \o ToString(i) : i \in 1..(MaxSessions + 1) }
AccessTokens == {"gho_1", "gho_2"}

KeysOf(ts) == { ts[i].key : i \in DOMAIN ts }

IndexOf(ts, key) == CHOOSE i \in DOMAIN ts : ts[i].key = key

RemoveAt(ts, i) == SubSeq(ts, 1, i - 1) \o SubSeq(ts, i + 1, Len(ts))

\* "datetime.now() > info['expires_at']"
IsExpiredNever(e, at) == FALSE
IsExpired(e, at) == at > e.expires_at

\* cleanup_expired: the store without its expired entries
RECURSIVE WithoutExpired(_, _)
WithoutExpired(ts, at) ==
    IF ts = <<>> THEN <<>>
    ELSE IF IsExpired(Head(ts), at) THEN WithoutExpired(Tail(ts), at)
    ELSE <<Head(ts)>> \o WithoutExpired(Tail(ts), at)

\* min(self._tokens.keys(), key=created_at): the first entry, in dict order,
\* with the least created_at
OldestIndex(ts) ==
    CHOOSE i \in DOMAIN ts :
        /\ \A j \in DOMAIN ts : ts[i].created_at <= ts[j].created_at
        /\ \A j \in 1..(i - 1) : ts[j].created_at > ts[i].created_at

\* "if len(self._tokens) >= self._max_sessions: del self._tokens[oldest_id]"
EvictNothing(ts) == ts
EvictIfFull(ts) ==
    IF Len(ts) >= MaxSessions THEN RemoveAt(ts, OldestIndex(ts)) ELSE ts

\* "self._tokens[session_id] = {...}": an existing key keeps its place in the dict
Store(ts, e) ==
    IF e.key \in KeysOf(ts) THEN [ts EXCEPT ![IndexOf(ts, e.key)] = e]
    ELSE Append(ts, e)

\* set(session_id, token_info, ttl)
SetTokens(key, tok, ttl) ==
    LET e == [key |-> key, token |-> tok, created_at |-> now, expires_at |-> now + ttl]
        live == WithoutExpired(tokens, now)
        kept == EvictIfFull(live)
        gone == KeysOf(live) \ KeysOf(kept)
    IN  /\ tokens' = Store(kept, e)
        /\ tsLast' = [op |-> "set", key |-> key, ret |-> None,
                      evicted |-> IF gone = {} THEN None ELSE CHOOSE k \in gone : TRUE,
                      expired |-> FALSE]

TokenSet(key, tok, ttl) ==
    /\ SetTokens(key, tok, ttl)
    /\ UNCHANGED <<now, NotTS>>

\* get(session_id)
TokenGet(key) ==
    /\ IF key \notin KeysOf(tokens)
          THEN /\ tokens' = tokens
               /\ tsLast' = [op |-> "get", key |-> key, ret |-> None, evicted |-> None,
                             expired |-> FALSE]
          ELSE LET i == IndexOf(tokens, key) IN
               IF IsExpired(tokens[i], now)
                  THEN /\ tokens' = RemoveAt(tokens, i)
                       /\ tsLast' = [op |-> "get", key |-> key, ret |-> None,
                                     evicted |-> None, expired |-> TRUE]
                  ELSE /\ tokens' = tokens
                       /\ tsLast' = [op |-> "get", key |-> key, ret |-> tokens[i].token,
                                     evicted |-> None, expired |-> FALSE]
    /\ UNCHANGED <<now, NotTS>>

\* delete(session_id)
TokenDelete(key) ==
    /\ tokens' = IF key \in KeysOf(tokens) THEN RemoveAt(tokens, IndexOf(tokens, key))
                 ELSE tokens
    /\ tsLast' = [op |-> "delete", key |-> None, ret |-> None, evicted |-> None,
                  expired |-> FALSE]
    /\ UNCHANGED <<now, NotTS>>

\* cleanup_expired()
TokenCleanupExpired ==
    /\ tokens' = WithoutExpired(tokens, now)
    /\ tsLast' = [op |-> "cleanup", key |-> None, ret |-> None, evicted |-> None,
                  expired |-> FALSE]
    /\ UNCHANGED <<now, NotTS>>

NextTS ==
    \/ \E key \in TokenKeys, tok \in AccessTokens, ttl \in 1..MaxTtl : TokenSet(key, tok, ttl)
    \/ \E key \in TokenKeys : TokenGet(key)
    \/ \E key \in TokenKeys : TokenDelete(key)
    \/ TokenCleanupExpired
    \/ Tick

SpecTS == Init /\ [][NextTS]_vars

\* C8 (tsLast'.op = "set" with the clock unchanged marks a step of set(k, ...)):
\* the store never holds more than N = max_sessions entries; a set() of a
\* new key while N unexpired entries are stored removes exactly one entry, one
\* with the least created_at, and keeps every other entry as it was.
C8_CapacityEvictsOldest ==
    [][ \A k \in TokenKeys :
          (tsLast'.op = "set" /\ tsLast'.key = k /\ now' = now) =>
             /\ Len(tokens') <= MaxSessions
             /\ ( /\ k \notin KeysOf(tokens)
                  /\ Len(tokens) = MaxSessions
                  /\ \A i \in DOMAIN tokens : ~(now > tokens[i].expires_at) )
                => \E i \in DOMAIN tokens :
                      /\ \A j \in DOMAIN tokens :
                            tokens[i].created_at <= tokens[j].created_at
                      /\ tsLast'.evicted = tokens[i].key
                      /\ Len(tokens') = MaxSessions
                      /\ KeysOf(tokens') = (KeysOf(tokens) \ {tokens[i].key}) \cup {k}
                      /\ \A j \in DOMAIN tokens \ {i} :
                            \E m \in DOMAIN tokens' : tokens'[m] = tokens[j]
      ]_vars

\* a set() of a new key has just evicted an entry of a full store
C8_Witness ==
    /\ tsLast.op = "set"
    /\ tsLast.evicted # None
    /\ tsLast.evicted \notin KeysOf(tokens)
    /\ tsLast.key \in KeysOf(tokens)
    /\ Len(tokens) = MaxSessions

\* C9 (tsLast'.op = "get" with the clock unchanged marks a step of get(k)):
\* get(k) returns None and removes the entry when the entry has expired,
\* returns the stored token and leaves the store unchanged when the entry has
\* not expired, and returns None and leaves the store unchanged when k is not
\* stored; so it never returns a token whose expires_at is in the past.
C9_GetNeverReturnsExpired ==
    [][ \A k \in TokenKeys :
          (tsLast'.op = "get" /\ tsLast'.key = k /\ now' = now) =>
             IF k \notin KeysOf(tokens)
                THEN tsLast'.ret = None /\ tokens' = tokens
                ELSE LET e == tokens[IndexOf(tokens, k)] IN
                     IF e.expires_at < now
                        THEN /\ tsLast'.ret = None
                             /\ k \notin KeysOf(tokens')
                             /\ Len(tokens') = Len(tokens) - 1
                             /\ \A j \in DOMAIN tokens :
                                   tokens[j].key # k =>
                                      \E m \in DOMAIN tokens' : tokens'[m] = tokens[j]
                        ELSE tsLast'.ret = e.token /\ tokens' = tokens
      ]_vars

\* a get() has just found its entry expired and removed it, next to a live one
C9_Witness ==
    /\ tsLast.op = "get"
    /\ tsLast.expired
    /\ tsLast.ret = None
    /\ tsLast.key \notin KeysOf(tokens)
    /\ tokens # <<>>

----------------------------------------------------------------------------
(* The rate limiter (app/auth/rate_limiter.py).  Its only caller is the    *)
(* coroutine get_device_code, and is_allowed does not await: calls run one *)
(* at a time, each reading the clock once.                                 *)

\* "[req_time for req_time in self._requests[key] if req_time > window_start]"
RECURSIVE Pruned(_, _)
Pruned(reqs, window_start) ==
    IF reqs = <<>> THEN <<>>
    ELSE IF Head(reqs) > window_start
            THEN <<Head(reqs)>> \o Pruned(Tail(reqs), window_start)
            ELSE Pruned(Tail(reqs), window_start)

\* "if len(self._requests[key]) >= max_requests"
OverLimitLoose(n, max_requests) == n > max_requests
OverLimit(n, max_requests) == n >= max_requests

\* min(self._requests[key])
MinOf(reqs) == CHOOSE t \in { reqs[i] : i \in DOMAIN reqs } :
                   \A i \in DOMAIN reqs : t <= reqs[i]

\* "max(1, retry_after)" with retry_after = int(oldest + window - now)
RetryAfter(reqs, window_seconds, at) ==
    LET retry_after == MinOf(reqs) + window_seconds - at
    IN  IF retry_after > 1 THEN retry_after ELSE 1

\* is_allowed(key, max_requests, window_seconds), every call passing the same
\* max_requests and window_seconds
IsAllowed(key, max_requests, window_seconds) ==
    /\ rlMax = 0 \/ (max_requests = rlMax /\ window_seconds = rlWindow)
    /\ rlMax' = max_requests
    /\ rlWindow' = window_seconds
    /\ LET kept == Pruned(rlRequests[key], now - window_seconds) IN
       IF OverLimit(Len(kept), max_requests)
          THEN /\ rlRequests' = [rlRequests EXCEPT ![key] = kept]
               /\ rlAllowed' = rlAllowed
               /\ rlLast' = [op |-> "is_allowed", key |-> key, at |-> now, ok |-> FALSE,
                             retry |-> RetryAfter(kept, window_seconds, now)]
          ELSE /\ rlRequests' = [rlRequests EXCEPT ![key] = Append(kept, now)]
               /\ rlAllowed' = [rlAllowed EXCEPT ![key] = Append(@, now)]
               /\ rlLast' = [op |-> "is_allowed", key |-> key, at |-> now, ok |-> TRUE,
                             retry |-> 0]
    /\ UNCHANGED <<now, NotRL>>

NextRL ==
    \/ \E key \in RLKeys, m \in 1..MaxRequests, w \in 1..MaxWindow : IsAllowed(key, m, w)
    \/ Tick

SpecRL == Init /\ [][NextRL]_vars

\* the number of allowed calls of key k with a timestamp in [a, b)
AllowedIn(k, a, b) ==
    Cardinality({ i \in DOMAIN rlAllowed[k] : a <= rlAllowed[k][i] /\ rlAllowed[k][i] < b })

\* C10 (rlLast'.op = "is_allowed" with the clock unchanged marks a step of
\* is_allowed(k, m, w)): for every key, with max_requests m >= 1 and window w >= 1 used on every
\* call, at most m calls are allowed in any half-open interval of length w; a
\* call is allowed, with (True, 0), exactly when fewer than m calls were allowed
\* in the window (now - w, now], and is otherwise denied with (False, r), r >= 1,
\* recording no timestamp; after each call the key's list holds only timestamps
\* newer than now - w.
C10_AtMostMaxPerWindow ==
    /\ [](\A k \in RLKeys : \A a \in 0..now : AllowedIn(k, a, a + rlWindow) <= rlMax)
    /\ [][ \A k \in RLKeys :
             (rlLast'.op = "is_allowed" /\ rlLast'.key = k /\ now' = now) =>
                /\ \A i \in DOMAIN rlRequests'[k] : rlRequests'[k][i] > now - rlWindow'
                /\ IF AllowedIn(k, now - rlWindow' + 1, now + 1) < rlMax'
                      THEN /\ rlLast'.ok /\ rlLast'.retry = 0
                           /\ rlAllowed'[k] = Append(rlAllowed[k], now)
                           /\ Len(rlRequests'[k]) >= 1
                           /\ rlRequests'[k][Len(rlRequests'[k])] = now
                      ELSE /\ ~rlLast'.ok /\ rlLast'.retry >= 1
                           /\ rlAllowed' = rlAllowed
                           /\ Len(rlRequests'[k]) <= Len(rlRequests[k])
                           /\ Len(rlRequests'[k]) = rlMax'
       ]_vars

\* a call was denied inside a full window, and an earlier window has run out
C10_Witness ==
    /\ rlLast.op = "is_allowed"
    /\ ~rlLast.ok
    /\ rlLast.at = now
    /\ Len(rlAllowed[rlLast.key]) > rlMax
    /\ Len(rlRequests[rlLast.key]) = rlMax

----------------------------------------------------------------------------
(* The OAuth device flow (app/auth/github_oauth.py).  The coroutines run   *)
(* on one event loop: a coroutine runs without interruption between two    *)
(* awaits, and other coroutines run while it waits for the provider.       *)

\* "interval=data.get('interval', 5)" and "data.get('interval', 15)"
DefaultInterval == 5
SlowDownInterval == 15

\* the "interval" field of a provider response; NoInterval: the field is absent
NoInterval == 0
ProviderIntervals == {NoInterval, DefaultInterval}

\* the provider's answers to a token request
Responses ==
    [kind : {"authorization_pending", "access_denied", "expired_token",
             "incorrect_device_code", "no_token", "request_error"},
     interval : {NoInterval}, token : {None}]
    \cup [kind : {"slow_down"}, interval : ProviderIntervals, token : {None}]
    \cup [kind : {"access_token"}, interval : {NoInterval}, token : AccessTokens]

\* "device_code in self.device_codes"
InTable(d) == d \in DOMAIN deviceCodes /\ deviceCodes[d].stored

\* "datetime.now() > dc.created_at + timedelta(seconds=dc.expires_in)"
CodeExpired(dc, at) == at > dc.created_at + dc.expires_in

\* the history of device code d after its status has become "status"
StatusChange(d, status) ==
    [dcHist EXCEPT ![d].changedLate =
        @ \/ (deviceCodes[d].status # "pending" /\ deviceCodes[d].status # status)]

\* request_device_code(), the provider answering 200 with a new device code
\* (any other outcome returns None and changes nothing)
RequestDeviceCode(expires_in, interval) ==
    /\ Len(deviceCodes) < MaxCodes
    /\ deviceCodes' = Append(deviceCodes,
          [status |-> "pending", created_at |-> now, expires_in |-> expires_in,
           interval |-> IF interval = NoInterval THEN DefaultInterval ELSE interval,
           stored |-> TRUE])
    /\ dcHist' = Append(dcHist, [tokens |-> 0, sentLate |-> FALSE, changedLate |-> FALSE])
    /\ UNCHANGED <<now, polls, oaLast, NotOA>>

\* poll_access_token(d) up to its return or to "await client.post"
PollStart(p, d) ==
    /\ polls[p] = Idle
    /\ LET late == d \in DOMAIN dcHist /\ dcHist[d].tokens > 0 IN
       IF ~InTable(d)
          THEN /\ oaLast' = [code |-> d, token |-> None, error |-> "invalid_device",
                             late |-> late, answer |-> None]
               /\ UNCHANGED <<deviceCodes, dcHist, polls>>
       ELSE IF CodeExpired(deviceCodes[d], now)
          THEN /\ deviceCodes' = [deviceCodes EXCEPT ![d].status = "expired",
                                                     ![d].stored = FALSE]
               /\ dcHist' = StatusChange(d, "expired")
               /\ oaLast' = [code |-> d, token |-> None, error |-> "expired_token",
                             late |-> late, answer |-> None]
               /\ UNCHANGED polls
       ELSE IF deviceCodes[d].status = "denied"
          THEN /\ oaLast' = [code |-> d, token |-> None, error |-> "access_denied",
                             late |-> late, answer |-> None]
               /\ UNCHANGED <<deviceCodes, dcHist, polls>>
       ELSE /\ polls' = [polls EXCEPT ![p] = [code |-> d, late |-> late]]
            /\ dcHist' = [dcHist EXCEPT ![d].sentLate =
                              @ \/ deviceCodes[d].status # "pending"]
            /\ UNCHANGED <<deviceCodes, oaLast>>
    /\ UNCHANGED <<now, NotOA>>

\* "dc.status = status; del self.device_codes[device_code]; return None, error":
\* the del raises KeyError when the entry is gone, and the call returns
\* (None, "unknown_error")
EndCode(d, status, error, late) ==
    /\ deviceCodes' = [deviceCodes EXCEPT ![d].status = status, ![d].stored = FALSE]
    /\ dcHist' = StatusChange(d, status)
    /\ oaLast' = [code |-> d, token |-> None,
                  error |-> IF deviceCodes[d].stored THEN error ELSE "unknown_error",
                  late |-> late, answer |-> error]

\* "dc.status = 'authorized'; return data['access_token'], ''": the entry
\* stays in the table
Authorize(d, token, late) ==
    /\ deviceCodes' = [deviceCodes EXCEPT ![d].status = "authorized"]
    /\ dcHist' = [StatusChange(d, "authorized") EXCEPT ![d].tokens = @ + 1]
    /\ oaLast' = [code |-> d, token |-> token, error |-> "", late |-> late,
                  answer |-> "access_token"]

\* poll_access_token(d) from the provider's answer to its return; the provider
\* gives out the token of a device code once
PollReturn(p, resp) ==
    /\ polls[p] # Idle
    /\ resp.kind = "access_token" => dcHist[polls[p].code].tokens = 0
    /\ polls' = [polls EXCEPT ![p] = Idle]
    /\ LET d == polls[p].code
           late == polls[p].late
           ret(error) == [code |-> d, token |-> None, error |-> error, late |-> late,
                          answer |-> resp.kind]
       IN  CASE resp.kind = "authorization_pending" ->
                    /\ oaLast' = ret("authorization_pending")
                    /\ UNCHANGED <<deviceCodes, dcHist>>
             [] resp.kind = "access_denied" -> EndCode(d, "denied", "access_denied", late)
             [] resp.kind = "expired_token" -> EndCode(d, "expired", "expired_token", late)
             [] resp.kind = "slow_down" ->
                    /\ deviceCodes' = [deviceCodes EXCEPT ![d].interval =
                          IF resp.interval = NoInterval THEN SlowDownInterval
                          ELSE resp.interval]
                    /\ oaLast' = ret("authorization_pending")
                    /\ UNCHANGED dcHist
             [] resp.kind = "incorrect_device_code" ->
                    /\ oaLast' = ret("incorrect_device_code")
                    /\ UNCHANGED <<deviceCodes, dcHist>>
             [] resp.kind = "access_token" -> Authorize(d, resp.token, late)
             [] resp.kind = "no_token" ->
                    /\ oaLast' = ret("unknown_error")
                    /\ UNCHANGED <<deviceCodes, dcHist>>
             [] resp.kind = "request_error" ->
                    /\ oaLast' = ret("network_error")
                    /\ UNCHANGED <<deviceCodes, dcHist>>

PollFinish(p, resp) ==
    /\ PollReturn(p, resp)
    /\ UNCHANGED <<now, NotOA>>

\* cleanup_expired_codes()
CleanupExpiredCodes ==
    /\ deviceCodes' = [d \in DOMAIN deviceCodes |->
          IF deviceCodes[d].stored /\ CodeExpired(deviceCodes[d], now)
             THEN [deviceCodes[d] EXCEPT !.stored = FALSE]
             ELSE deviceCodes[d]]
    /\ UNCHANGED <<now, dcHist, polls, oaLast, NotOA>>

NextOA ==
    \/ \E e \in 1..MaxExpires, i \in ProviderIntervals : RequestDeviceCode(e, i)
    \/ \E p \in Pollers, d \in 1..(MaxCodes + 1) : PollStart(p, d)
    \/ \E p \in Pollers, resp \in Responses : PollFinish(p, resp)
    \/ CleanupExpiredCodes
    \/ Tick

SpecOA == Init /\ [][NextOA]_vars

\* C6: a poll_access_token(d) call made after a poll_access_token(d) has
\* returned an access token returns (None, "invalid_device").
C6_PollAfterTokenIsInvalidDevice ==
    oaLast.late => (oaLast.token = None /\ oaLast.error = "invalid_device")

\* C7: for each device code at most one poll returns an access token, the
\* status does not change once it has left "pending", and no token request is
\* sent for the code once its status has left "pending".
C7_DeviceCodeSingleUse ==
    \A d \in DOMAIN dcHist :
        /\ dcHist[d].tokens <= 1
        /\ ~dcHist[d].changedLate
        /\ ~dcHist[d].sentLate

\* C23: when the provider answers a poll with slow_down, the interval stored
\* for the device code after the poll is strictly greater than the one stored
\* before it, the code's status stays pending, its entry stays in the table,
\* and the poll returns (None, "authorization_pending").
C23_SlowDownRaisesInterval ==
    [][ \A p \in Pollers :
          (polls[p] # Idle /\ polls'[p] = Idle /\ oaLast'.answer = "slow_down") =>
             LET d == polls[p].code
             IN  /\ deviceCodes'[d].interval > deviceCodes[d].interval
                 /\ deviceCodes'[d].status = "pending"
                 /\ deviceCodes'[d].stored
                 /\ oaLast'.token = None /\ oaLast'.error = "authorization_pending" ]_vars

----------------------------------------------------------------------------
(* The git handlers of app/routes.py and their process-wide lock.  The     *)
(* handlers are coroutines of one event loop: a step runs from one await   *)
(* to the next.  "await init_local_git_async(...)" and "await              *)
(* pull_updates_async(...)" are modelled as points where the handler may   *)
(* be suspended inside its git section while other requests run (the       *)
(* coroutines of git_service.py run their git commands with blocking       *)
(* subprocess calls, so the model allows more interleavings than the       *)
(* program shows).                                                         *)

\* the X-User-Id values of the clients that use the git handlers
PlainKeys == {<<"a">>, <<"b">>}

GitKinds == {"init", "pull", "reset", "soft_reset", "commit"}

\* InitRequest.gitRepo ("" when the request gives none)
GitRepos == {"", "git@host:blog.git"}

\* the outcomes of the git coroutine: a status that init_local_git_async
\* returns, an HTTPException it raises, or any other exception
GitOutcomes == {"connected", "remote_configured", "cloned", "no_remote", "http_400",
                "http_500", "error"}

\* asyncio.Lock.acquire takes the lock at once when it is unlocked and nobody
\* is queued for it
LockFreeAlways(l) == TRUE
LockFree(l) == ~l.locked /\ l.waiters = <<>>

\* asyncio.Lock.release: unlock; the first waiter is woken
Released(l) == [l EXCEPT !.locked = FALSE, !.holder = NoHandler]

\* "async with git_operation_lock" entered by h
Acquired(l, h) == [l EXCEPT !.locked = TRUE, !.holder = h]

\* context_manager.get_session_path / setup_git_context find the session
HasSession(sid) == sid # NoId /\ sid \in DOMAIN sessions

\* base_path + "_backup"
BackupPath(path) == [path EXCEPT ![Len(path)] = @ \o "_backup"]

\* shutil.rmtree(backup_path, ignore_errors=True) and
\* shutil.copytree(base_path, backup_path, dirs_exist_ok=True)
WithBackup(d, path) ==
    IF ~Exists(d, path) \/ path = <<>> THEN d
    ELSE LET backup == BackupPath(path)
             d1 == MakeDirs(RmTree(d, backup), backup)
             copies == { backup \o SubSeq(q, Len(path) + 1, Len(q)) :
                           q \in { x \in DOMAIN d : IsPrefix(path, x) } }
         IN  [q \in DOMAIN d1 \cup copies |->
                 IF q \in copies
                    THEN d[path \o SubSeq(q, Len(backup) + 1, Len(q))]
                    ELSE d1[q]]

\* the handler of lock holder h from "async with" to its first await or to
\* its end: [end, code, s, d, path], where end says that the handler has
\* returned or raised (and released the lock) and code is its HTTP status
\*   pull and commit pass oauth_session_id to functions that do not take it
\*   (TypeError, answered 500) and run no git command
FirstPart(kind, sid, repo) ==
    LET stay == [end |-> TRUE, code |-> 500, s |-> sessions, d |-> disk,
                 path |-> currentPath]
        setup == [stay EXCEPT !.path = IF HasSession(sid) THEN sessions[sid].path
                                       ELSE currentPath]
    IN  CASE kind = "init" ->
                 IF sid = NoId THEN [stay EXCEPT !.code = 400]
                 ELSE IF ~HasSession(sid) THEN stay
                 ELSE [stay EXCEPT !.end = FALSE,
                                   !.s = IF repo = "" THEN sessions
                                         ELSE [sessions EXCEPT ![sid].git_repo = repo]]
          [] kind = "reset" ->
                 IF sid = NoId THEN [stay EXCEPT !.code = 400]
                 ELSE IF ~HasSession(sid) THEN stay
                 ELSE [setup EXCEPT !.end = FALSE,
                                    !.d = WithBackup(disk, sessions[sid].path)]
          [] kind = "soft_reset" ->
                 IF ~HasSession(sid) THEN stay ELSE [setup EXCEPT !.end = FALSE]
          [] kind \in {"pull", "commit"} ->
                 IF sid = NoId THEN [stay EXCEPT !.code = 400] ELSE setup

\* h runs its handler from the acquisition of the lock
RunFirstPart(h, kind, sid, repo) ==
    LET r == FirstPart(kind, sid, repo) IN
    /\ sessions' = r.s
    /\ disk' = r.d
    /\ sessionsFile' = IF r.s = sessions THEN sessionsFile ELSE SaveSessions(r.s, r.d)
    /\ currentPath' = r.path
    /\ IF r.end
          THEN /\ handlers' = [handlers EXCEPT ![h] = NoRequest]
               /\ gitLast' = r.code
          ELSE /\ handlers' = [handlers EXCEPT ![h] =
                                  [kind |-> kind, sid |-> sid, path |-> sessions[sid].path,
                                   pc |-> "git"]]
               /\ gitLast' = gitLast

\* a request arrives: "async with git_operation_lock", and on from there when
\* the lock is free (the handler reads its request once it has the lock: the
\* request of a waiting handler is drawn when it resumes)
Enter(h, kind, sid, repo) ==
    /\ handlers[h] = NoRequest
    /\ IF LockFree(gitLock)
          THEN /\ RunFirstPart(h, kind, sid, repo)
               /\ gitLock' = IF handlers'[h] = NoRequest THEN gitLock
                             ELSE Acquired(gitLock, h)
          ELSE /\ handlers' = [handlers EXCEPT ![h] = [NoRequest EXCEPT !.pc = "waiting"]]
               /\ gitLock' = [gitLock EXCEPT !.waiters = Append(@, h)]
               /\ UNCHANGED <<sessions, disk, sessionsFile, currentPath, gitLast>>
    /\ UNCHANGED <<now, nextId, smLast, NotGit>>

\* the first waiter, woken by release, takes the lock and runs its handler
Resume(h, kind, sid, repo) ==
    /\ handlers[h].pc = "waiting"
    /\ ~gitLock.locked
    /\ gitLock.waiters # <<>> /\ Head(gitLock.waiters) = h
    /\ RunFirstPart(h, kind, sid, repo)
    /\ gitLock' = IF handlers'[h] = NoRequest
                     THEN [gitLock EXCEPT !.waiters = Tail(@)]
                     ELSE [Acquired(gitLock, h) EXCEPT !.waiters = Tail(@)]
    /\ UNCHANGED <<now, nextId, smLast, NotGit>>

\* the git commands of h have run (the workspace directory exists when they
\* succeed; the size of what they write is not tracked); the rest of the
\* handler, to the release of the lock at the end of "async with"
GitDone(h, outcome) ==
    /\ handlers[h].pc = "git"
    /\ LET kind == handlers[h].kind
           sid == handlers[h].sid
           ok == outcome \notin {"http_400", "http_500", "error"}
           mark == /\ kind = "init"
                   /\ outcome \in {"connected", "remote_configured", "cloned"}
                   /\ sid \in DOMAIN sessions
           s2 == IF mark THEN [sessions EXCEPT ![sid].initialized = TRUE] ELSE sessions
           d2 == IF ok THEN MakeDirs(disk, handlers[h].path) ELSE disk
       IN  /\ sessions' = s2
           /\ disk' = d2
           /\ sessionsFile' = IF mark THEN SaveSessions(s2, d2) ELSE sessionsFile
           /\ gitLast' = IF ok THEN 200 ELSE IF outcome = "http_400" THEN 400 ELSE 500
    /\ handlers' = [handlers EXCEPT ![h] = NoRequest]
    /\ gitLock' = Released(gitLock)
    /\ UNCHANGED <<now, nextId, smLast, currentPath, NotGit>>

NextGit ==
    \/ \E key \in PlainKeys : CreateSession(key, TRUE)
    \/ \E h \in Handlers, kind \in GitKinds, sid \in 0..MaxIds, repo \in GitRepos :
          Enter(h, kind, sid, repo)
    \/ \E h \in Handlers, kind \in GitKinds, sid \in 0..MaxIds, repo \in GitRepos :
          Resume(h, kind, sid, repo)
    \/ \E h \in Handlers, outcome \in GitOutcomes : GitDone(h, outcome)

SpecGit == Init /\ [][NextGit]_vars

\* the requests that are inside their git section
InGitSection == { h \in Handlers : handlers[h].pc = "git" }

\* C5: at any time at most one init, pull, reset, soft_reset or commit handler
\* is inside its git section, over all sessions, and the one that is holds
\* git_operation_lock.
C5_OneGitSectionAtATime ==
    /\ Cardinality(InGitSection) <= 1
    /\ \A h \in InGitSection : gitLock.locked /\ gitLock.holder = h
    /\ gitLock.locked => gitLock.holder \in InGitSection

\* a handler is inside its git section for one session, a second session
\* exists, and another request waits for the lock
C5_Witness ==
    \E h1 \in Handlers, h2 \in Handlers :
        /\ handlers[h1].pc = "git"
        /\ handlers[h2].pc = "waiting"
        /\ handlers[h1].sid \in DOMAIN sessions
        /\ DOMAIN sessions # {handlers[h1].sid}

\* C29: a git request that names a session id which is not in the registry
\* is answered with a 4xx status, and the step that answers it changes neither
\* the registry, the registry file, the disk nor the path the git commands
\* run in.
C29_UnknownSessionIsClientError ==
    [][ \A h \in Handlers, kind \in GitKinds, sid \in 1..MaxIds, repo \in GitRepos :
          ( /\ Enter(h, kind, sid, repo) \/ Resume(h, kind, sid, repo)
            /\ ~HasSession(sid)
            /\ handlers'[h] = NoRequest )
          => /\ gitLast' \in 400..499
             /\ UNCHANGED <<sessions, disk, sessionsFile, currentPath>> ]_vars

\* C34: for a session whose workspace has been initialized, POST /pull and
\* POST /commit get as far as their pipeline: the handler that has the lock
\* enters its git section and does not end before a git subprocess is started.
C34_RoutesStartTheirPipeline ==
    [][ \A h \in Handlers, kind \in {"pull", "commit"}, sid \in 1..MaxIds, repo \in GitRepos :
          ( /\ Enter(h, kind, sid, repo) \/ Resume(h, kind, sid, repo)
            /\ HasSession(sid)
            /\ sessions[sid].initialized
            /\ handlers'[h].pc # "waiting" )
          => handlers'[h].pc = "git" ]_vars

----------------------------------------------------------------------------
(* SessionManager called from several threads.  The create_session route   *)
(* is a plain function, which the server runs on threadpool threads; the   *)
(* cleanup loop runs on its own thread.  SessionManager takes no lock in   *)
(* its methods, so a thread can be preempted between any two statements:   *)
(* each action below is one statement (or a few that touch the registry    *)
(* or the disk once).  get_session_by_user_id, get_total_disk_usage,       *)
(* sorted() and _save_sessions are taken as one step each.                 *)

\* a thread changes the keys of self.sessions: the cleanup thread's iterator
\* over self.sessions.items() is open
RacedBy(t) ==
    [bgHist EXCEPT !.iterRaced = @ \/ (t # Cleaner /\ threads[Cleaner].pc = "scan")]

\* create_session(key, clean_old=True), lines 77-87: the id, and the lookup
\* of the user's old session
CreateBegin(t, key) ==
    /\ t \in Foreground
    /\ threads[t].pc = "idle"
    /\ nextId < MaxIds
    /\ nextId' = nextId + 1
    /\ LET old == GetSessionByUserId(sessions, key) IN
       threads' = [threads EXCEPT ![t] =
          [IdleThread EXCEPT !.key = key, !.sid = nextId + 1, !.target = old,
                             !.after = "insert",
                             !.pc = IF old = NoId THEN "insert" ELSE "del_check"]]
    /\ UNCHANGED <<now, sessions, disk, sessionsFile, smLast, bgHist, NotTh>>

\* delete_session line 189: "if session_id not in self.sessions: return False"
DeleteCheck(t) ==
    /\ threads[t].pc = "del_check"
    /\ threads' = [threads EXCEPT ![t].pc =
          IF threads[t].target \in DOMAIN sessions THEN "del_path" ELSE threads[t].after]
    /\ UNCHANGED <<now, smVars, bgHist, NotTh>>

\* delete_session line 192: "session_path = self.sessions[session_id]['path']",
\* outside the try: a KeyError ends the caller (the route answers 500, the
\* cleanup loop logs it and sleeps)
DeleteReadPath(t) ==
    /\ threads[t].pc = "del_path"
    /\ threads' = [threads EXCEPT ![t] =
          IF threads[t].target \in DOMAIN sessions
             THEN [threads[t] EXCEPT !.path = sessions[threads[t].target].path,
                                     !.pc = "del_rm"]
             ELSE IdleThread]
    /\ UNCHANGED <<now, smVars, bgHist, NotTh>>

\* the cleanup thread removes the directory of a session created since its
\* sweep (cleanup_expired_sessions or cleanup_disk_space) started
RemovesNew(t, path) ==
    /\ t = Cleaner
    /\ Exists(disk, path)
    /\ \E sid \in DOMAIN sessions : sid > bgHist.startId /\ sessions[sid].path = path

\* delete_session lines 195-196: exists and rmtree
DeleteRmTree(t) ==
    /\ threads[t].pc = "del_rm"
    /\ disk' = RmTree(disk, threads[t].path)
    /\ bgHist' = [bgHist EXCEPT !.removedNew = @ \/ RemovesNew(t, threads[t].path)]
    /\ threads' = [threads EXCEPT ![t].pc = "del_rec"]
    /\ UNCHANGED <<now, sessions, sessionsFile, nextId, smLast, NotTh>>

\* delete_session lines 200-202: the user_id and "del self.sessions[session_id]";
\* a KeyError returns False
DeleteRecord(t) ==
    /\ threads[t].pc = "del_rec"
    /\ IF threads[t].target \in DOMAIN sessions
          THEN /\ sessions' = [x \in DOMAIN sessions \ {threads[t].target} |-> sessions[x]]
               /\ bgHist' = RacedBy(t)
               /\ threads' = [threads EXCEPT ![t].pc = "del_save"]
          ELSE /\ threads' = [threads EXCEPT ![t].pc = threads[t].after]
               /\ UNCHANGED <<sessions, bgHist>>
    /\ UNCHANGED <<now, disk, sessionsFile, nextId, smLast, NotTh>>

\* delete_session lines 203-205: _save_sessions, return True
DeleteSave(t) ==
    /\ threads[t].pc = "del_save"
    /\ sessionsFile' = SaveSessions(sessions, disk)
    /\ threads' = [threads EXCEPT ![t].pc = threads[t].after]
    /\ UNCHANGED <<now, sessions, disk, nextId, smLast, bgHist, NotTh>>

\* create_session lines 89-96: the record is stored
CreateInsert(t) ==
    /\ threads[t].pc = "insert"
    /\ sessions' = [x \in DOMAIN sessions \cup {threads[t].sid} |->
                      IF x = threads[t].sid
                         THEN NewRecord(threads[t].key, SessionPath(threads[t].key))
                         ELSE sessions[x]]
    /\ bgHist' = RacedBy(t)
    /\ threads' = [threads EXCEPT ![t].pc = "mkdir"]
    /\ UNCHANGED <<now, disk, sessionsFile, nextId, smLast, NotTh>>

\* create_session line 98: os.makedirs(session_path, exist_ok=True)
CreateMkdir(t) ==
    /\ threads[t].pc = "mkdir"
    /\ disk' = MakeDirs(disk, SessionPath(threads[t].key))
    /\ threads' = [threads EXCEPT ![t].pc = "save"]
    /\ UNCHANGED <<now, sessions, sessionsFile, nextId, smLast, bgHist, NotTh>>

\* create_session lines 99-102: _save_sessions, return
CreateSave(t) ==
    /\ threads[t].pc = "save"
    /\ sessionsFile' = SaveSessions(sessions, disk)
    /\ threads' = [threads EXCEPT ![t] = IdleThread]
    /\ UNCHANGED <<now, sessions, disk, nextId, smLast, bgHist, NotTh>>

\* _perform_cleanup: cleanup_expired_sessions() lines 222-228, up to the
\* iterator over self.sessions.items()
SweepStart ==
    /\ threads[Cleaner].pc = "idle"
    /\ threads' = [threads EXCEPT ![Cleaner] =
          [IdleThread EXCEPT !.pc = "scan", !.after = "sweep",
                             !.cutoff = now - SESSION_TIMEOUT_HOURS,
                             !.used = Cardinality(DOMAIN sessions),
                             !.left = Cardinality(DOMAIN sessions)]]
    /\ bgHist' = [bgHist EXCEPT !.startId = nextId]
    /\ UNCHANGED <<now, smVars, NotTh>>

\* one round of "for session_id, session_data in self.sessions.items()": the
\* iterator raises RuntimeError when the dict has changed size, or when it
\* finds an entry after it has given out as many as the dict had; the error
\* ends _perform_cleanup (the cleanup loop logs it and sleeps)
SweepScan ==
    /\ threads[Cleaner].pc = "scan"
    /\ LET th == threads[Cleaner]
           rest == { x \in DOMAIN sessions : x > th.pos }
           x == CHOOSE y \in rest : \A z \in rest : y <= z
       IN  threads' = [threads EXCEPT ![Cleaner] =
              IF Cardinality(DOMAIN sessions) # th.used THEN IdleThread
              ELSE IF rest = {} THEN [th EXCEPT !.pc = "sweep"]
              ELSE IF th.left = 0 THEN IdleThread
              ELSE [th EXCEPT !.pos = x, !.left = @ - 1,
                              !.todo = IF sessions[x].last_access < th.cutoff
                                          THEN Append(@, x) ELSE @]]
    /\ UNCHANGED <<now, smVars, bgHist, NotTh>>

\* "for session_id in expired_sessions: if self.delete_session(session_id)";
\* after the loop, _check_disk_space
SweepNext ==
    /\ threads[Cleaner].pc = "sweep"
    /\ LET th == threads[Cleaner] IN
       threads' = [threads EXCEPT ![Cleaner] =
          IF th.todo = <<>> THEN [th EXCEPT !.pc = "disk"]
          ELSE [th EXCEPT !.target = Head(th.todo), !.todo = Tail(th.todo),
                          !.pc = "del_check"]]
    /\ UNCHANGED <<now, smVars, bgHist, NotTh>>

\* _check_disk_space, and cleanup_disk_space() up to its loop: the sweep is
\* over unless the usage is at least MAX_DISK_USAGE_GB and more than it
DiskCheck ==
    /\ threads[Cleaner].pc = "disk"
    /\ LET usage == GetTotalDiskUsage(sessions, disk) IN
       threads' = [threads EXCEPT ![Cleaner] =
          IF usage >= MAX_DISK_USAGE_GB /\ ~(usage <= MAX_DISK_USAGE_GB)
             THEN [threads[Cleaner] EXCEPT
                      !.pc = "evict", !.after = "evict",
                      !.todo = SortedByLastAccess(sessions, DOMAIN sessions)]
             ELSE IdleThread]
    /\ bgHist' = [bgHist EXCEPT !.startId = nextId]
    /\ UNCHANGED <<now, smVars, NotTh>>

\* "for session_id, _ in sorted_sessions: if self.get_total_disk_usage() <=
\* max_bytes: break; if self.delete_session(session_id)"
EvictNext ==
    /\ threads[Cleaner].pc = "evict"
    /\ LET th == threads[Cleaner] IN
       threads' = [threads EXCEPT ![Cleaner] =
          IF th.todo = <<>> \/ GetTotalDiskUsage(sessions, disk) <= MAX_DISK_USAGE_GB
             THEN IdleThread
             ELSE [th EXCEPT !.target = Head(th.todo), !.todo = Tail(th.todo),
                             !.pc = "del_check"]]
    /\ UNCHANGED <<now, smVars, bgHist, NotTh>>

\* the clock advances by an hour, until sessions can be older than the timeout
TickSweep ==
    /\ now < SESSION_TIMEOUT_HOURS + MaxHours
    /\ now' = now + 1
    /\ UNCHANGED NotNow

\* what a thread does inside delete_session and create_session
CallSteps(t) ==
    \/ DeleteCheck(t)
    \/ DeleteReadPath(t)
    \/ DeleteRmTree(t)
    \/ DeleteRecord(t)
    \/ DeleteSave(t)
    \/ CreateInsert(t)
    \/ CreateMkdir(t)
    \/ CreateSave(t)

\* two requests to the create_session route at the same time
NextFG ==
    \/ \E t \in Foreground, key \in PlainKeys : CreateBegin(t, key)
    \/ \E t \in Foreground : CallSteps(t)

SpecFG == Init /\ [][NextFG]_vars

\* one request thread and the cleanup thread
NextBG ==
    \/ \E key \in PlainKeys : CreateBegin("t1", key)
    \/ \E t \in {"t1", Cleaner} : CallSteps(t)
    \/ SweepStart
    \/ SweepScan
    \/ SweepNext
    \/ DiskCheck
    \/ EvictNext
    \/ \E sid \in Ids : WriteFile(sid)
    \/ TickSweep

SpecBG == Init /\ [][NextBG]_vars

\* C2: when the create_session(u, clean_old=True) calls of two threads have all
\* returned, every user key u that has a record has exactly one, and the
\* directory of that record exists.
C2_ConcurrentCreatesLeaveOneRecord ==
    (\A t \in Foreground : threads[t].pc = "idle") =>
        \A u \in PlainKeys :
            SessionsOfUser(sessions, u) # {} =>
                /\ Cardinality(SessionsOfUser(sessions, u)) = 1
                /\ Exists(disk, SessionPath(u))

\* C3: a sweep of the cleanup thread never has its iterator over the registry
\* open while a foreground call changes the registry, and never removes the
\* directory of a session that was created during the sweep.
C3_SweepNeverRacesForeground ==
    /\ ~bgHist.iterRaced
    /\ ~bgHist.removedNew

----------------------------------------------------------------------------
(* Sessions in use and the TTL sweep.  The request handlers (file create,  *)
(* save and delete, init, pull, reset, commit) find the workspace with     *)
(* context_manager.get_session_path and setup_git_context, which read the  *)
(* record with SessionManager.get_session.                                 *)

\* context_manager.get_session_path(sid) in a request handler: the path of the
\* record, or RuntimeError when there is no record (ok = FALSE); the hour of
\* the request is kept in the count field
LookupPath(sid) ==
    /\ smLast' = Call("lookup", NoId, sid, HasSession(sid), now, <<>>)
    /\ UNCHANGED <<now, sessions, disk, sessionsFile, nextId, NotSM>>

\* requests of clients that use their sessions, and the periodic sweep of the
\* cleanup service
NextUse ==
    \/ \E key \in PlainKeys : CreateSession(key, TRUE)
    \/ \E sid \in Ids : LookupPath(sid)
    \/ \E sid \in Ids : WriteFile(sid)
    \/ CleanupExpiredSessions(SESSION_TIMEOUT_HOURS)
    \/ TickSweep

SpecUse == Init /\ [][NextUse]_vars

\* C18: a request handler's lookup of a session's workspace path sets the
\* session's last_access to the current time, and a TTL sweep that runs less
\* than a timeout period after a request has looked up a session does not
\* delete that session.
C18_LookupKeepsSessionAlive ==
    [][ \A sid \in Ids :
          /\ (smLast'.op = "lookup" /\ smLast'.arg = sid /\ smLast'.ok /\ now' = now) =>
                sessions'[sid].last_access = now
          /\ (smLast.op = "lookup" /\ smLast.arg = sid /\ smLast.ok
                /\ now - smLast.count < SESSION_TIMEOUT_HOURS
                /\ smLast'.op = "expired" /\ now' = now) =>
                sid \in DOMAIN sessions' ]_vars

----------------------------------------------------------------------------
(***************************************************************************)
(* The git pipelines of app/git_service.py on one workspace.  A call runs  *)
(* its subprocesses one after the other and is modelled as one step; cmds  *)
(* is the list of the subprocesses it ran.  What git answers depends on    *)
(* the repository where git decides it (nothing staged, no origin remote)  *)
(* and is an input of the call otherwise (the network, the credentials,    *)
(* the remote repository, locks on the index).  head, index and files are  *)
(* the three trees git compares; a stash entry keeps the index and the     *)
(* files it put aside.                                                     *)
(***************************************************************************)

\* git status -s: the paths that differ between HEAD, the index and the
\* working tree; git_status returns [] when the command fails
GitStatus(r, fs) ==
    IF r.git
    THEN { f \in FileNames : r.index[f] # r.head[f] \/ fs[f] # r.index[f] }
    ELSE {}

\* git add -A
GitAddRun(r, fs, ok) ==
    IF r.git /\ ok THEN [r EXCEPT !.index = fs] ELSE r

\* what a call found on its way, for the calls that record nothing
Nothing == [fetch |-> "none", hook |-> "none"]

\* POST /file/create and /file/save: write the file, then git_add()
CreateFile(f, addOk) ==
    /\ files' = [files EXCEPT ![f] = LocalText]
    /\ wsGit' = GitAddRun(wsGit, files', addOk)
    /\ cmds' = <<"add -A">>
    /\ wsLast' = [op |-> "create_file",
                  result |-> IF wsGit.git /\ addOk THEN "ok" ELSE "add_failed",
                  found |-> Nothing,
                  detail |-> IF wsGit.git /\ addOk THEN "none" ELSE "category"]
    /\ UNCHANGED <<tempDir, now, NotWs>>

\* DELETE /file/delete: 404 for a path that does not exist; otherwise remove
\* it, then git_add()
DeleteFile(f, addOk) ==
    /\ files[f] # Absent
    /\ files' = [files EXCEPT ![f] = Absent]
    /\ wsGit' = GitAddRun(wsGit, files', addOk)
    /\ cmds' = <<"add -A">>
    /\ wsLast' = [op |-> "delete_file",
                  result |-> IF wsGit.git /\ addOk THEN "ok" ELSE "add_failed",
                  found |-> Nothing,
                  detail |-> IF wsGit.git /\ addOk THEN "none" ELSE "category"]
    /\ UNCHANGED <<tempDir, now, NotWs>>

\* POST /git-repo: the session record gets a remote URL
SetGitRepo ==
    /\ wsGit' = [wsGit EXCEPT !.url = TRUE]
    /\ cmds' = <<>>
    /\ wsLast' = [op |-> "set_git_repo", result |-> "ok",
                  found |-> Nothing, detail |-> "none"]
    /\ UNCHANGED <<files, tempDir, now, NotWs>>

\* config.CMD_AFTER_PUSH: not set, refused by validate_deploy_command, or a
\* command that runs and exits with 0 or not
HookConfigs == {"none", "invalid", "ok", "fail"}

\* git fetch origin, run with timeout=60 and without check=True
FetchResults == {"ok", "fail", "timeout"}

\* the git commands of ensure_git_remote_config and get_current_branch
RemoteConfigCmds(r) ==
    <<"remote -v", IF r.origin THEN "remote set-url" ELSE "remote add",
      "rev-parse --abbrev-ref">>

\* a fetch that fails stops the pipeline
AfterFetchChecked(fetchRes) ==
    IF fetchRes = "ok" THEN <<"symbolic-ref", "push -u">> ELSE <<>>

\* git_commit after its fetch: a non-zero exit is not looked at and
\* TimeoutExpired is caught, so get_remote_default_branch and the push follow
\* whatever the fetch did
AfterFetch(fetchRes) == <<"symbolic-ref", "push -u">>

\* git_commit: the subprocesses it runs, the repository afterwards and how it
\* ends.  git commit fails when nothing is staged; git push fails without an
\* origin remote.
GitCommitRun(r, fs, commitOk, remoteOk, fetchRes, pushOk, hook) ==
    LET committed == commitOk /\ r.index # r.head
        r1 == [r EXCEPT !.commit = TRUE, !.head = r.index]
        r2 == IF remoteOk THEN [r1 EXCEPT !.origin = TRUE] ELSE r1
        pushed == pushOk /\ r2.origin
        t1 == <<"status", "commit">>
        t2 == t1 \o RemoteConfigCmds(r1) \o <<"fetch">> \o AfterFetch(fetchRes)
        ran == [fetch |-> fetchRes, hook |-> "none"]
    IN  IF GitStatus(r, fs) = {}
        THEN [cmds |-> <<"status">>, repo |-> r, result |-> "noop", found |-> Nothing]
        ELSE IF ~committed
        THEN [cmds |-> t1, repo |-> r, result |-> "commit_failed", found |-> Nothing]
        ELSE IF ~r.url
        THEN [cmds |-> t1, repo |-> r1, result |-> "no_remote", found |-> Nothing]
        ELSE IF ~pushed
        THEN [cmds |-> t2, repo |-> r2, result |-> "push_failed", found |-> ran]
        ELSE IF hook = "none"
        THEN [cmds |-> t2, repo |-> r2, result |-> "ok", found |-> ran]
        ELSE IF hook = "invalid"
        THEN [cmds |-> t2, repo |-> r2, result |-> "hook_invalid",
              found |-> [ran EXCEPT !.hook = hook]]
        ELSE [cmds |-> t2 \o <<"hook">>, repo |-> r2,
              result |-> IF hook = "ok" THEN "ok" ELSE "hook_failed",
              found |-> [ran EXCEPT !.hook = hook]]

\* What the HTTPException raised for a failed call carries in its detail:
\* "category", a fixed message chosen by what the error text contains;
\* "stderr", a message that ends with the subprocess's stderr; "other", a
\* message about something that is no git subprocess; "raised", when the
\* exception of subprocess.run leaves the function as it is; "none" without a
\* failure.

\* git_commit: "except subprocess.CalledProcessError" picks one of its fixed
\* messages for git commit and git push
CommitDetail(result) ==
    IF result \in {"commit_failed", "push_failed"} THEN "category"
    ELSE IF result \in {"no_remote", "hook_invalid", "hook_failed"} THEN "other"
    ELSE "none"

\* pull_updates_async: detail="拉取失败：" + e.stderr for git fetch and for git merge
PullDetail(result) ==
    IF result \in {"fetch_failed", "merge_failed"} THEN "stderr"
    ELSE IF result = "not_a_repository" THEN "other"
    ELSE "none"

\* what the subprocesses of one git_commit call answer: the command that
\* fails first ("none", "commit" or "push"), whether git remote set-url or add
\* works, how the fetch ends and what the hook does; a command that is not
\* reached has no answer
CommitOutcomes ==
    { o \in [fail : {"none", "commit", "push"}, remoteOk : BOOLEAN,
             fetch : FetchResults, hook : HookConfigs] :
        /\ o.fail = "commit" => o.remoteOk /\ o.fetch = "ok"
        /\ o.fail # "none" => o.hook = "none" }

\* the answers that matter in a workspace: none when the status is empty or
\* nothing is staged, none after the commit when the session has no remote
\* URL, not that of git remote set-url when there is an origin, and not that
\* of git push when there is no origin to push to
CommitReached(r, fs) ==
    { o \in CommitOutcomes :
        /\ (GitStatus(r, fs) = {} \/ r.index = r.head) =>
              o = [fail |-> "none", remoteOk |-> TRUE, fetch |-> "ok", hook |-> "none"]
        /\ ~r.url => o.fail # "push" /\ o.remoteOk /\ o.fetch = "ok" /\ o.hook = "none"
        /\ r.origin => o.remoteOk
        /\ ~o.remoteOk => o.fail = "push" }

GitCommit(o) ==
    LET run == GitCommitRun(wsGit, files, o.fail # "commit", o.remoteOk, o.fetch,
                            o.fail # "push", o.hook)
    IN  /\ wsGit' = run.repo
        /\ cmds' = run.cmds
        /\ wsLast' = [op |-> "git_commit", result |-> run.result,
                      found |-> run.found, detail |-> CommitDetail(run.result)]
        /\ UNCHANGED <<files, tempDir, now, NotWs>>

\* the trees the remote repository can hold
RemoteTrees == [FileNames -> {Absent, RemoteText}]

\* the paths the remote branch changes with respect to HEAD
Incoming(r, rf) == { f \in FileNames : rf[f] = RemoteText /\ r.head[f] # RemoteText }

\* git merge fails when the remote has no branch yet, and refuses to
\* overwrite a path with staged or unstaged changes
Mergeable(r, fs, rf) ==
    /\ rf # NoFiles
    /\ \A f \in Incoming(r, rf) : r.index[f] = r.head[f] /\ fs[f] = r.head[f]

\* the trees after a merge that succeeded
Merged(tree, r, rf) == [f \in FileNames |-> IF f \in Incoming(r, rf) THEN RemoteText ELSE tree[f]]

\* git stash push: the changes with respect to HEAD are put aside (the model
\* keeps the newest stash entry only)
StashPush(r, fs) ==
    [r EXCEPT !.stash = [saved |-> TRUE, base |-> r.head, files |-> fs], !.index = r.head]

\* the working tree after git stash pop: the changes put aside are back
Popped(st, fs) == [f \in FileNames |-> IF st.files[f] # st.base[f] THEN st.files[f] ELSE fs[f]]

\* pull_updates_async: the subprocesses it runs, the workspace afterwards and
\* how it ends.  git fetch fails without an origin remote, git stash pop fails
\* without a stash entry.
PullRun(r, fs, remoteOk, fetchOk, stashOk, mergeOk, popOk, rf) ==
    LET t0 == IF r.url THEN RemoteConfigCmds(r) ELSE <<"rev-parse --abbrev-ref">>
        r1 == IF r.url /\ remoteOk THEN [r EXCEPT !.origin = TRUE] ELSE r
        has_initial_commit == r.commit
        t1 == t0 \o <<"rev-parse HEAD", "fetch">>
        local_changes == GitStatus(r1, fs) # {}
        stashing == local_changes /\ has_initial_commit
        t2 == t1 \o <<"symbolic-ref", "status --porcelain">>
                 \o (IF stashing THEN <<"stash push">> ELSE <<>>) \o <<"merge">>
        stashed == stashing /\ stashOk
        r2 == IF stashed THEN StashPush(r1, fs) ELSE r1
        fs2 == IF stashed THEN r1.head ELSE fs
        merged == mergeOk /\ Mergeable(r2, fs2, rf)
        r3 == [r2 EXCEPT !.commit = TRUE, !.head = Merged(r2.head, r2, rf),
                         !.index = Merged(r2.index, r2, rf)]
        fs3 == Merged(fs2, r2, rf)
        popped == popOk /\ r3.stash.saved
        r4 == IF popped THEN [r3 EXCEPT !.stash = NoStash] ELSE r3
        fs4 == IF popped THEN Popped(r3.stash, fs3) ELSE fs3
        seen == [changes |-> local_changes, commit |-> has_initial_commit, stashed |-> stashed]
    IN  IF ~r.git
        THEN [cmds |-> <<>>, repo |-> r, files |-> fs, result |-> "not_a_repository",
              found |-> [changes |-> FALSE, commit |-> FALSE, stashed |-> FALSE]]
        ELSE IF ~(fetchOk /\ r1.origin)
        THEN [cmds |-> t1, repo |-> r1, files |-> fs, result |-> "fetch_failed",
              found |-> [changes |-> FALSE, commit |-> has_initial_commit, stashed |-> FALSE]]
        ELSE IF ~merged
        THEN [cmds |-> t2, repo |-> r2, files |-> fs2, result |-> "merge_failed", found |-> seen]
        ELSE IF local_changes
        THEN [cmds |-> t2 \o <<"stash pop">>, repo |-> r4, files |-> fs4, result |-> "ok",
              found |-> seen]
        ELSE [cmds |-> t2, repo |-> r3, files |-> fs3, result |-> "ok", found |-> seen]

\* what the subprocesses of one pull_updates_async call answer: the command
\* that fails first ("none", "fetch" or "merge"), whether git remote set-url or
\* add, git stash push and git stash pop work, and the tree of the remote
\* branch
PullOutcomes ==
    { o \in [fail : {"none", "fetch", "merge"}, remoteOk : BOOLEAN, stashOk : BOOLEAN,
             popOk : BOOLEAN, remote : RemoteTrees] :
        /\ o.fail = "fetch" => o.stashOk
        /\ o.fail # "none" => o.popOk /\ o.remote = NoFiles }

\* the answers that matter in a workspace: none without .git, none of git
\* remote without a URL or with an origin, not that of git fetch without an
\* origin, none of git stash push and pop without local changes
PullReached(r, fs) ==
    { o \in PullOutcomes :
        /\ ~r.git => o = [fail |-> "none", remoteOk |-> TRUE, stashOk |-> TRUE,
                          popOk |-> TRUE, remote |-> NoFiles]
        /\ (~r.url \/ r.origin) => o.remoteOk
        /\ (r.git /\ ~r.origin /\ ~(r.url /\ o.remoteOk)) => o.fail = "fetch"
        /\ ~(GitStatus(r, fs) # {} /\ r.commit) => o.stashOk
        /\ GitStatus(r, fs) = {} => o.popOk }

PullUpdates(o) ==
    LET run == PullRun(wsGit, files, o.remoteOk, o.fail # "fetch", o.stashOk, o.fail # "merge",
                       o.popOk, o.remote)
    IN  /\ wsGit' = run.repo
        /\ files' = run.files
        /\ cmds' = run.cmds
        /\ wsLast' = [op |-> "pull_updates", result |-> run.result,
                      found |-> run.found, detail |-> PullDetail(run.result)]
        /\ UNCHANGED <<tempDir, now, NotWs>>

\* git clone, run with check=True and timeout=120: it succeeds, fails with
\* "empty repository" in its message, fails with "not found" or "Permission
\* denied", or is killed at the timeout (TimeoutExpired is not caught).  The
\* retry without -b after "Remote branch ... not found" is part of the outcome.
CloneResults == {"ok", "empty", "not_found", "denied", "timeout"}

\* the repository a successful clone of the remote tree rf makes
ClonedRepo(r, rf) ==
    [r EXCEPT !.git = TRUE, !.origin = TRUE, !.commit = (rf # NoFiles),
              !.head = rf, !.index = rf, !.stash = NoStash, !.identity = FALSE]

\* git init -b main
InitRepo(r) ==
    [r EXCEPT !.git = TRUE, !.origin = FALSE, !.commit = FALSE,
              !.head = NoFiles, !.index = NoFiles, !.stash = NoStash, !.identity = FALSE]

\* configure_git_user: "git config user.name" and "git config user.email", both
\* with check=True, write the identity into the repository's own config (the
\* GitHub user's with a valid token, "MarkGit User" otherwise); when one of
\* them fails the config is as it was
ConfigureGitUser(r, cfgOk) == IF cfgOk THEN [r EXCEPT !.identity = TRUE] ELSE r

\* the values of "status" in what init_local_git_async returns
InitStatuses ==
    {"connected", "remote_configured", "no_remote", "remote_check_failed", "preserved_local",
     "cloned", "empty_repo", "initialized"}

\* init_local_git_async: a failed clone is answered with a fixed message when
\* its error text holds "not found" and, when the workspace has no files,
\* also when it holds "Permission denied" or "password"; otherwise with
\* "连接远程仓库失败：" + error_msg or "克隆仓库失败：" + error_msg
InitDetail(hasFiles, clone, result) ==
    IF result = "error: clone failed"
       THEN IF clone = "not_found" \/ (clone = "denied" /\ ~hasFiles) THEN "category"
            ELSE "stderr"
    ELSE IF result \in InitStatuses THEN "none"
    ELSE "raised"

\* what init_local_git_async reads before it chooses its branch
InitFound(r, fs, clone) ==
    [git |-> r.git, origin |-> r.git /\ r.origin, hasFiles |-> fs # NoFiles,
     url |-> r.url, clone |-> clone]

\* has_git: check the remote; a repository with an origin and no files is
\* filled from the remote, and nothing this does can fail the call: a failure
\* of configure_git_user is logged
InitExisting(r, fs, temp, rf, pullOk, remoteOk, cfgOk) ==
    IF r.origin
    THEN IF fs = NoFiles
         THEN [cmds |-> <<"remote -v", "fetch", "symbolic-ref", "checkout", "reset --hard", "config">>,
               repo |-> ConfigureGitUser(
                           IF pullOk
                              THEN [r EXCEPT !.commit = (rf # NoFiles), !.head = rf, !.index = rf]
                              ELSE r, cfgOk),
               files |-> IF pullOk THEN rf ELSE fs, temp |-> temp, result |-> "connected"]
         ELSE [cmds |-> <<"remote -v", "config">>, repo |-> ConfigureGitUser(r, cfgOk),
               files |-> fs, temp |-> temp, result |-> "connected"]
    ELSE IF r.url
    THEN IF remoteOk
         THEN [cmds |-> <<"remote -v", "remote add", "config">>,
               repo |-> ConfigureGitUser([r EXCEPT !.origin = TRUE], cfgOk),
               files |-> fs, temp |-> temp, result |-> "remote_configured"]
         ELSE [cmds |-> <<"remote -v", "remote add">>, repo |-> r, files |-> fs, temp |-> temp,
               result |-> "remote_check_failed"]
    ELSE [cmds |-> <<"remote -v">>, repo |-> r, files |-> fs, temp |-> temp, result |-> "no_remote"]

\* the files after the remote-only files were copied in
CopiedIn(fs, rf) == [f \in FileNames |-> IF fs[f] = Absent THEN rf[f] ELSE fs[f]]

\* no .git, files and a URL: clone into <workspace>_remote_temp (emptied
\* first), copy .git over, configure the user, copy the remote-only files,
\* remove the temporary directory, stage everything.  left says whether a
\* clone that did not succeed leaves the temporary directory behind.
InitPreserve(r, fs, rf, clone, left, cfgOk, addOk) ==
    LET hasTemp == clone = "ok" \/ left
        tree == IF clone = "ok" THEN rf ELSE NoFiles
        r1 == IF hasTemp THEN ClonedRepo(r, tree) ELSE r
        fs1 == IF clone = "ok" THEN CopiedIn(fs, rf) ELSE fs
    IN  IF clone = "timeout"
        THEN [cmds |-> <<"clone">>, repo |-> r, files |-> fs, temp |-> left,
              result |-> "error: TimeoutExpired"]
        ELSE IF clone \notin {"ok", "empty"}
        THEN [cmds |-> <<"clone">>, repo |-> r, files |-> fs, temp |-> FALSE,
              result |-> "error: clone failed"]
        ELSE IF ~(cfgOk /\ r1.git)
        THEN [cmds |-> <<"clone", "config">>, repo |-> r1, files |-> fs, temp |-> hasTemp,
              result |-> "error: git config failed"]
        ELSE IF ~addOk
        THEN [cmds |-> <<"clone", "config", "add -A">>, repo |-> ConfigureGitUser(r1, TRUE),
              files |-> fs1, temp |-> FALSE, result |-> "error: git add failed"]
        ELSE [cmds |-> <<"clone", "config", "add -A">>,
              repo |-> [ConfigureGitUser(r1, TRUE) EXCEPT !.index = fs1],
              files |-> fs1, temp |-> FALSE, result |-> "preserved_local"]

\* the answer does not look at the files
InitPlainOneStatus(r, fs, temp, initOk, cfgOk) ==
    IF ~initOk
    THEN [cmds |-> <<"init">>, repo |-> r, files |-> fs, temp |-> temp,
          result |-> "error: git init failed"]
    ELSE [cmds |-> <<"init", "config">>, repo |-> ConfigureGitUser(InitRepo(r), cfgOk),
          files |-> fs, temp |-> temp,
          result |-> IF cfgOk THEN "initialized" ELSE "error: git config failed"]

\* no .git and no URL: git init, with files ("no_remote") or without
\* ("initialized")
InitPlain(r, fs, temp, initOk, cfgOk) ==
    IF ~initOk
    THEN [cmds |-> <<"init">>, repo |-> r, files |-> fs, temp |-> temp,
          result |-> "error: git init failed"]
    ELSE IF ~cfgOk
    THEN [cmds |-> <<"init", "config">>, repo |-> InitRepo(r), files |-> fs, temp |-> temp,
          result |-> "error: git config failed"]
    ELSE [cmds |-> <<"init", "config">>, repo |-> ConfigureGitUser(InitRepo(r), TRUE),
          files |-> fs, temp |-> temp,
          result |-> IF fs # NoFiles THEN "no_remote" ELSE "initialized"]

\* no .git, no files and a URL: clone into the workspace
InitClone(r, fs, temp, rf, clone, initOk, remoteOk, cfgOk) ==
    IF clone = "ok"
    THEN [cmds |-> <<"clone", "config">>, repo |-> ConfigureGitUser(ClonedRepo(r, rf), cfgOk),
          files |-> rf, temp |-> temp, result |-> "cloned"]
    ELSE IF clone = "empty"
    THEN IF ~initOk
         THEN [cmds |-> <<"clone", "init">>, repo |-> r, files |-> fs, temp |-> temp,
               result |-> "error: git init failed"]
         ELSE IF ~remoteOk
         THEN [cmds |-> <<"clone", "init", "remote add">>, repo |-> InitRepo(r), files |-> fs,
               temp |-> temp, result |-> "error: git remote add failed"]
         ELSE IF ~cfgOk
         THEN [cmds |-> <<"clone", "init", "remote add", "config">>,
               repo |-> [InitRepo(r) EXCEPT !.origin = TRUE], files |-> fs, temp |-> temp,
               result |-> "error: git config failed"]
         ELSE [cmds |-> <<"clone", "init", "remote add", "config">>,
               repo |-> ConfigureGitUser([InitRepo(r) EXCEPT !.origin = TRUE], TRUE),
               files |-> fs, temp |-> temp, result |-> "empty_repo"]
    ELSE [cmds |-> <<"clone">>, repo |-> r, files |-> fs, temp |-> temp,
          result |-> IF clone = "timeout" THEN "error: TimeoutExpired" ELSE "error: clone failed"]

\* init_local_git_async: the branch is chosen by has_git, has_files and
\* git_repo
InitRun(r, fs, temp, rf, clone, left, pullOk, initOk, remoteOk, cfgOk, addOk) ==
    IF r.git THEN InitExisting(r, fs, temp, rf, pullOk, remoteOk, cfgOk)
    ELSE IF fs # NoFiles /\ r.url THEN InitPreserve(r, fs, rf, clone, left, cfgOk, addOk)
    ELSE IF fs # NoFiles THEN InitPlain(r, fs, temp, initOk, cfgOk)
    ELSE IF r.url THEN InitClone(r, fs, temp, rf, clone, initOk, remoteOk, cfgOk)
    ELSE InitPlain(r, fs, temp, initOk, cfgOk)

\* what the subprocesses of one init_local_git_async call answer: the tree of
\* the remote branch, how the clone ends, whether a clone that did not succeed
\* leaves its directory behind, and the first of the other commands that fails
\* ("pull" is the filling of an empty repository from its remote); a command
\* that the branch taken does not run has no answer
InitOutcomes(r, fs) ==
    LET Out(trees, clones, lefts, fails) ==
            [remote : trees, clone : clones, left : lefts, fail : fails]
        All == RemoteTrees
        One == {NoFiles}
    IN  IF r.git
        THEN IF r.origin
             THEN IF fs = NoFiles THEN Out(All, {"none"}, {FALSE}, {"none", "pull", "config"})
                  ELSE Out(One, {"none"}, {FALSE}, {"none", "config"})
             ELSE IF r.url THEN Out(One, {"none"}, {FALSE}, {"none", "remote add", "config"})
             ELSE Out(One, {"none"}, {FALSE}, {"none"})
        ELSE IF fs # NoFiles /\ r.url
        THEN Out(All, {"ok"}, {FALSE}, {"none", "config", "add"})
               \cup Out(One, {"empty"}, BOOLEAN, {"none", "config", "add"})
               \cup Out(One, {"not_found", "denied"}, {FALSE}, {"none"})
               \cup Out(One, {"timeout"}, BOOLEAN, {"none"})
        ELSE IF fs = NoFiles /\ r.url
        THEN Out(All, {"ok"}, {FALSE}, {"none", "config"})
               \cup Out(One, {"empty"}, {FALSE}, {"none", "init", "remote add", "config"})
               \cup Out(One, {"not_found", "denied", "timeout"}, {FALSE}, {"none"})
        ELSE Out(One, {"none"}, {FALSE}, {"none", "init", "config"})

InitLocalGit(o) ==
    LET run == InitRun(wsGit, files, tempDir, o.remote, o.clone, o.left, o.fail # "pull",
                       o.fail # "init", o.fail # "remote add", o.fail # "config", o.fail # "add")
    IN  /\ wsGit' = run.repo
        /\ files' = run.files
        /\ tempDir' = run.temp
        /\ cmds' = run.cmds
        /\ wsLast' = [op |-> "init_local_git", result |-> run.result,
                      found |-> InitFound(wsGit, files, o.clone),
                      detail |-> InitDetail(files # NoFiles, o.clone, run.result)]
        /\ UNCHANGED <<now, NotWs>>

\* a new session of the same user: create_session deletes the old session
\* with its directory and makes the directory again, and the new record has
\* no git_repo (BLOG_GIT_SSH is not set)
ResetWorkspace ==
    /\ wsGit' = [wsGit EXCEPT !.git = FALSE, !.commit = FALSE, !.origin = FALSE, !.url = FALSE,
                              !.head = NoFiles, !.index = NoFiles, !.stash = NoStash,
                              !.identity = FALSE]
    /\ files' = NoFiles
    /\ cmds' = <<>>
    /\ wsLast' = [op |-> "reset", result |-> "ok", found |-> Nothing, detail |-> "none"]
    /\ UNCHANGED <<tempDir, now, NotWs>>

NextWs ==
    \/ \E f \in EditedNames, addOk \in BOOLEAN : CreateFile(f, addOk)
    \/ \E f \in FileNames, addOk \in BOOLEAN : DeleteFile(f, addOk)
    \/ SetGitRepo
    \/ \E o \in CommitReached(wsGit, files) : GitCommit(o)
    \/ \E o \in PullReached(wsGit, files) : PullUpdates(o)
    \/ \E o \in InitOutcomes(wsGit, files) : InitLocalGit(o)
    \/ ResetWorkspace

SpecWs == Init /\ [][NextWs]_vars

\* whether a call ran the subprocess c
Ran(c, trace) == \E i \in DOMAIN trace : trace[i] = c

\* C11: when git_commit is called twice on the workspace with no file change
\* in between and the first call committed, the second call finds an empty
\* git status -s and runs nothing else: no commit, fetch, push or hook.
C11_SecondCommitIsNoOp ==
    [][ (/\ wsLast.op = "git_commit" /\ wsLast.result \notin {"noop", "commit_failed"}
         /\ wsLast'.op = "git_commit")
            => cmds' = <<"status">> ]_vars

\* the place of the subprocess c in a trace, 0 when it was not run
Pos(c, trace) == IF Ran(c, trace) THEN CHOOSE i \in DOMAIN trace : trace[i] = c ELSE 0

\* how often the subprocess c was run
Times(c, trace) == Cardinality({ i \in DOMAIN trace : trace[i] = c })

\* the steps of the commit pipeline that the order is about
PipelineSteps == <<"commit", "fetch", "symbolic-ref", "push -u", "hook">>

C13_NoStashWithoutCommit ==
    (wsLast.op = "pull_updates" /\ wsLast.found.changes /\ ~wsLast.found.commit) =>
        /\ ~Ran("stash push", cmds)
        /\ ~Ran("stash pop", cmds)
        /\ Ran("merge", cmds)

\* C14: an init_local_git_async call on a workspace without .git, with files
\* and with a remote URL leaves every file of the workspace in place with its
\* content, whether the clone succeeds or not, adds remote files only at paths
\* that had no file, and leaves no temporary clone directory behind, however
\* the call ends.
C14_PreserveLocalKeepsFiles ==
    [][ (wsLast'.op = "init_local_git" /\ ~wsGit.git /\ files # NoFiles /\ wsGit.url) =>
            /\ \A f \in FileNames : files[f] # Absent => files'[f] = files[f]
            /\ \A f \in FileNames : files[f] = Absent => files'[f] \in {Absent, RemoteText}
            /\ ~tempDir' ]_vars

\* an init_local_git_async call that returned a status (it did not raise)
InitReturned == wsLast.op = "init_local_git" /\ wsLast.result \in InitStatuses

SubprocessFailures ==
    {"commit_failed", "push_failed", "fetch_failed", "merge_failed", "error: clone failed"}

\* C22: when a git subprocess of init, pull or commit fails, the detail
\* returned to the caller is a fixed message chosen by the failure's category
\* and does not hold the subprocess's stderr.
C22_ErrorDetailIsSanitized ==
    (wsLast.op \in {"git_commit", "pull_updates", "init_local_git"}
        /\ wsLast.result \in SubprocessFailures)
    => wsLast.detail = "category"

\* the statuses init_local_git_async reports as a success
SuccessStatuses == InitStatuses \ {"remote_check_failed"}

\* C28: when init_local_git_async has returned a success status, the
\* repository's commit identity (user.name and user.email) is set.
C28_SuccessHasCommitIdentity ==
    (InitReturned /\ wsLast.result \in SuccessStatuses) => wsGit.identity

\* C31: a pull_updates_async run invokes git stash pop exactly when its own
\* git stash push was invoked and succeeded, so that no stash entry of an
\* earlier run is popped, and a run that invoked git stash pop does not fail.
C31_PopOnlyAfterOwnStash ==
    wsLast.op = "pull_updates" =>
        /\ Ran("stash pop", cmds) <=> wsLast.found.stashed
        /\ Ran("stash pop", cmds) => wsLast.result = "ok"

\* C36: a git_commit call that finds changes in a workspace with no remote
\* URL fails, runs no git commit, no fetch and no push, and leaves HEAD where
\* it was.
C36_NoRemoteMeansNoCommit ==
    [][ \A o \in CommitOutcomes :
          (GitCommit(o) /\ GitStatus(wsGit, files) # {} /\ ~wsGit.url)
             => /\ wsLast'.result \notin {"ok", "noop"}
                /\ ~Ran("commit", cmds') /\ ~Ran("fetch", cmds') /\ ~Ran("push -u", cmds')
                /\ wsGit'.head = wsGit.head ]_vars

\* C39: when a git_commit run has created the local commit and its push has
\* failed, the next git_commit call, with no file change in between, finds an
\* empty status and returns: it runs nothing after git status, no push.
C39_UnpushedCommitStaysLocal ==
    [][ (/\ wsLast.op = "git_commit" /\ wsLast.result = "push_failed"
         /\ wsLast'.op = "git_commit")
            => /\ cmds' = <<"status">>
               /\ wsLast'.result = "noop" ]_vars

----------------------------------------------------------------------------
(***************************************************************************)
(* Restart of the process.  The new process builds the SessionManager      *)
(* singleton when app.session_manager is imported (__init__ loads the      *)
(* registry file and makes the directories) and then runs startup_event of *)
(* main.py.  BLOG_CACHE_PATH exists by then, so the branch of              *)
(* startup_event that makes it is not taken.                               *)
(***************************************************************************)

\* _load_sessions: the registry of the file, {} when there is no file
LoadSessions(file) == IF file.exists THEN file.content ELSE <<>>

\* (the startup hook deletes nothing)
CleanupAllSessionsNothing(s, d, file) == [s |-> s, d |-> d, file |-> file, count |-> 0]

\* cleanup_all_sessions: delete_session for every id of the registry
CleanupAllSessions(s, d, file) == DeleteAll(IdsInOrder(DOMAIN s), s, d, file, 0)

\* the process stops and starts again: SessionManager.__init__, then
\* startup_event; arg is the number of sessions loaded from the file
Restart ==
    /\ LET loaded == LoadSessions(sessionsFile)
           d1 == MakeDirs(disk, SessionsDir)
           r == CleanupAllSessions(loaded, d1, sessionsFile)
       IN  /\ sessions' = r.s
           /\ disk' = r.d
           /\ sessionsFile' = r.file
           /\ smLast' = Call("restart", NoId, Cardinality(DOMAIN loaded), TRUE, r.count, <<>>)
    /\ UNCHANGED <<now, nextId, NotSM>>

NextBoot ==
    \/ \E key \in UserKeys : CreateSession(key, TRUE)
    \/ CreateAnonymous
    \/ \E sid \in Ids : DeleteSession(sid)
    \/ \E sid \in Ids : WriteFile(sid)
    \/ Restart

SpecBoot == Init /\ [][NextBoot]_vars

\* the sessions that are in the registry and in the registry file
Persisted ==
    { sid \in DOMAIN sessions : sessionsFile.exists /\ sid \in DOMAIN sessionsFile.content }

\* C21 as stated: a session that is in the registry and in the registry file
\* when the process stops is in the registry, with its directory, after the
\* restart and the startup hook.
C21_SessionSurvivesRestart ==
    [][ (smLast'.op = "restart" /\ now' = now) =>
            \A sid \in Persisted :
                sid \in DOMAIN sessions' /\ Exists(disk', sessions[sid].path) ]_vars

\* C21 amended: the restart loads the persisted sessions and the startup hook
\* deletes every one of them: afterwards the registry is empty, the registry
\* file (when there is one) holds no session, and the directory of every
\* session that was persisted is gone.
C21_RestartDropsEverySession ==
    [][ (smLast'.op = "restart" /\ now' = now) =>
            /\ sessions' = <<>>
            /\ sessionsFile'.exists => sessionsFile'.content = <<>>
            /\ \A sid \in Persisted : ~Exists(disk', sessions[sid].path) ]_vars

\* a restart that loaded a session from the registry file
C21_Witness == smLast.op = "restart" /\ smLast.arg > 0 /\ smLast.count > 0

----------------------------------------------------------------------------
(* CleanupService: start(), stop() and the thread that runs _cleanup_loop. *)
(* The thread is at "while" before it reads self.running in the loop       *)
(* condition, at "sweep" once the condition has let it in (the sweep is in *)
(* progress), at "for" before a round of the sleep loop, at "sleep" inside *)
(* time.sleep(1) and at "done" after it has left the loop.                 *)

\* self.cleanup_interval, config.CLEANUP_CHECK_INTERVAL_MINUTES * 60 seconds
\* (3600 by default), scaled down
CleanupInterval == 2

\* the history counts up to MaxCount
MaxCount == 4
Counted(n) == IF n < MaxCount THEN n + 1 ELSE n

\* a step of the thread counts in the history once stop() has been called
Stepped == IF csHist.stopped THEN [csHist EXCEPT !.steps = Counted(@)] ELSE csHist
Since(field) == IF csHist.stopped THEN [Stepped EXCEPT ![field] = Counted(@)] ELSE csHist

\* main.startup_event: cleanup_service.start(), called once; "if self.running:
\* return", else the flag is set and the daemon thread is started
CsStart ==
    /\ loop.pc = "none"
    /\ ~running
    /\ running' = TRUE
    /\ loop' = [pc |-> "while", left |-> 0]
    /\ UNCHANGED <<now, smVars, csHist, NotCs>>

\* main.shutdown_event: cleanup_service.stop(), called once: the flag is
\* cleared; join(timeout=5) waits for the thread and changes nothing
CsStop ==
    /\ loop.pc # "none"
    /\ ~csHist.stopped
    /\ running' = FALSE
    /\ csHist' = [csHist EXCEPT !.stopped = TRUE]
    /\ UNCHANGED <<now, smVars, loop, NotCs>>

\* "while self.running:"
LoopWhile ==
    /\ loop.pc = "while"
    /\ loop' = [loop EXCEPT !.pc = IF running THEN "sweep" ELSE "done"]
    /\ csHist' = IF running THEN Since("sweepsBegun") ELSE Stepped
    /\ UNCHANGED <<now, smVars, running, NotCs>>

\* _perform_cleanup and _check_disk_space, taken as one step:
\* cleanup_expired_sessions(), and cleanup_disk_space() when the usage has
\* reached MAX_DISK_USAGE_GB; nothing else is swept.  An exception is logged;
\* either way the thread goes on to "for _ in range(self.cleanup_interval)"
Sweep ==
    LET r1 == DeleteAll(IdsInOrder(ExpiredSessions(sessions, SESSION_TIMEOUT_HOURS)),
                        sessions, disk, sessionsFile, 0)
        usage == GetTotalDiskUsage(r1.s, r1.d)
        r2 == IF usage >= MAX_DISK_USAGE_GB /\ ~(usage <= MAX_DISK_USAGE_GB)
                 THEN EvictLoop(SortedByLastAccess(r1.s, DOMAIN r1.s), MAX_DISK_USAGE_GB,
                                r1.s, r1.d, r1.file, 0, <<>>)
                 ELSE r1
    IN  /\ sessions' = r2.s
        /\ disk' = r2.d
        /\ sessionsFile' = r2.file
        /\ smLast' = Call("loop", NoId, 0, TRUE, r1.count + r2.count, <<>>)

LoopSweep ==
    /\ loop.pc = "sweep"
    /\ Sweep
    /\ loop' = [pc |-> "for", left |-> CleanupInterval]
    /\ csHist' = Since("sweepsEnded")
    /\ UNCHANGED <<now, nextId, running, NotCs>>

\* where a round of "for _ in range(self.cleanup_interval): if not
\* self.running: break; time.sleep(1)" goes: back to the loop condition when
\* the range is used up or the flag is down, else into time.sleep(1)
ForNextNoBreak(run, left) == IF left = 0 THEN "while" ELSE "sleep"
ForNext(run, left) == IF left = 0 \/ ~run THEN "while" ELSE "sleep"

LoopFor ==
    /\ loop.pc = "for"
    /\ LET next == ForNext(running, loop.left) IN
       /\ loop' = [pc |-> next, left |-> IF next = "sleep" THEN loop.left - 1 ELSE loop.left]
       /\ csHist' = IF next = "sleep" THEN Since("sleepsBegun") ELSE Stepped
    /\ UNCHANGED <<now, smVars, running, NotCs>>

\* time.sleep(1) returns
LoopSleep ==
    /\ loop.pc = "sleep"
    /\ loop' = [loop EXCEPT !.pc = "for"]
    /\ csHist' = Since("sleepsEnded")
    /\ UNCHANGED <<now, smVars, running, NotCs>>

\* a step of the cleanup thread
LoopStep == LoopWhile \/ LoopSweep \/ LoopFor \/ LoopSleep

\* the service from startup to shutdown, with sessions created, written to and
\* growing old meanwhile
NextCs ==
    \/ CsStart
    \/ CsStop
    \/ LoopWhile
    \/ LoopSweep
    \/ LoopFor
    \/ LoopSleep
    \/ CreateAnonymous
    \/ \E sid \in Ids : WriteFile(sid)
    \/ TickSweep

SpecCs == Init /\ [][NextCs]_vars

\* the steps of its own the cleanup thread needs at most to leave the loop from
\* any position: the sweep or the sleep step in progress, the round of the
\* "for" that breaks, the loop condition
StepsToLeave == 3

\* C27: once stop() has cleared the running flag, the cleanup thread lets
\* no further sweep in, ends at most the sweep in progress and at most one
\* one-second sleep step, begins no sleep step of the rest of the interval,
\* and has left the loop after at most StepsToLeave steps of its own.
C27_StopEndsLoopPromptly ==
    csHist.stopped =>
        /\ csHist.sweepsBegun = 0
        /\ csHist.sweepsEnded <= 1
        /\ csHist.sleepsBegun = 0
        /\ csHist.sleepsEnded <= 1
        /\ csHist.steps <= StepsToLeave
        /\ (csHist.steps = StepsToLeave => loop.pc = "done")

\* stop() came during a sleep step with more of the interval left: the thread
\* has ended that one step and left the loop
C27_Witness ==
    /\ csHist.stopped
    /\ loop.pc = "done"
    /\ csHist.sleepsEnded = 1
    /\ loop.left > 0

\* start() called again once stop() has returned.  stop() returns when
\* join(timeout=5) does: the thread has ended, or it has not after 5 seconds,
\* which takes a sweep that is still in progress (out of the sweep the thread
\* reads the flag within a second).  "if self.running: return" lets the call
\* through, the flag is set and self.cleanup_thread is a new thread; the
\* thread it referred to, if alive, runs on.  The model follows one such thread.
CsStartAgain ==
    /\ ~running
    /\ loop.pc \in {"done", "sweep"}
    /\ orphan.pc \in {"none", "done"}
    /\ running' = TRUE
    /\ orphan' = IF loop.pc = "sweep" THEN loop ELSE orphan
    /\ loop' = [pc |-> "while", left |-> 0]
    /\ csHist' = [stopped |-> FALSE, sweepsBegun |-> 0, sweepsEnded |-> 0,
                  sleepsBegun |-> 0, sleepsEnded |-> 0, steps |-> 0]
    /\ UNCHANGED <<now, smVars, tsVars, rlVars, oaVars, gitVars, thVars, wsVars, fsVars, plVars>>

\* the steps of _cleanup_loop in the thread left behind, which reads the same
\* self.running
OrphanWhile ==
    /\ orphan.pc = "while"
    /\ orphan' = [orphan EXCEPT !.pc = IF running THEN "sweep" ELSE "done"]
    /\ UNCHANGED NotOr

OrphanSweep ==
    /\ orphan.pc = "sweep"
    /\ Sweep
    /\ orphan' = [pc |-> "for", left |-> CleanupInterval]
    /\ UNCHANGED <<now, nextId, tsVars, rlVars, oaVars, gitVars, thVars, wsVars, csVars,
                   fsVars, plVars>>

OrphanFor ==
    /\ orphan.pc = "for"
    /\ LET next == ForNext(running, orphan.left) IN
       orphan' = [pc |-> next, left |-> IF next = "sleep" THEN orphan.left - 1 ELSE orphan.left]
    /\ UNCHANGED NotOr

OrphanSleep ==
    /\ orphan.pc = "sleep"
    /\ orphan' = [orphan EXCEPT !.pc = "for"]
    /\ UNCHANGED NotOr

\* the service started and stopped any number of times
NextRs ==
    \/ CsStart
    \/ CsStop
    \/ CsStartAgain
    \/ LoopWhile
    \/ LoopSweep
    \/ LoopFor
    \/ LoopSleep
    \/ OrphanWhile
    \/ OrphanSweep
    \/ OrphanFor
    \/ OrphanSleep
    \/ CreateAnonymous
    \/ TickSweep

SpecRs == Init /\ [][NextRs]_vars

\* C38: over any sequence of start() and stop() calls, at most one thread is
\* inside a sweep of _cleanup_loop at any time.
C38_OneLoopThread == ~(loop.pc = "sweep" /\ orphan.pc = "sweep")

----------------------------------------------------------------------------
(* The running service: the cleanup thread beside the OAuth routes.  The   *)
(* operating system schedules the thread again and again and time passes.  *)

NextLiveOA ==
    \/ CsStart
    \/ LoopWhile
    \/ LoopSweep
    \/ LoopFor
    \/ LoopSleep
    \/ \E e \in 1..MaxExpires, i \in ProviderIntervals : RequestDeviceCode(e, i)
    \/ \E p \in Pollers, d \in 1..(MaxCodes + 1) : PollStart(p, d)
    \/ \E p \in Pollers, resp \in Responses : PollFinish(p, resp)
    \/ Tick

SpecLiveOA ==
    Init /\ [][NextLiveOA]_vars /\ WF_vars(CsStart) /\ WF_vars(LoopStep) /\ WF_vars(Tick)

\* C24: a device code in the table whose expiry time has passed is
\* eventually out of the table, whether or not it is polled again.
C24_ExpiredCodeEventuallyRemoved ==
    \A d \in 1..MaxCodes :
        (InTable(d) /\ CodeExpired(deviceCodes[d], now)) ~> ~InTable(d)

\* the cleanup thread beside the callers of the token store
NextLiveTS ==
    \/ CsStart
    \/ LoopWhile
    \/ LoopSweep
    \/ LoopFor
    \/ LoopSleep
    \/ \E key \in TokenKeys, tok \in AccessTokens, ttl \in 1..MaxTtl : TokenSet(key, tok, ttl)
    \/ \E key \in TokenKeys : TokenGet(key)
    \/ \E key \in TokenKeys : TokenDelete(key)
    \/ Tick

SpecLiveTS ==
    Init /\ [][NextLiveTS]_vars /\ WF_vars(CsStart) /\ WF_vars(LoopStep) /\ WF_vars(Tick)

\* the store holds, under the key, the entry that expired at e
HoldsExpired(key, e) ==
    /\ key \in KeysOf(tokens)
    /\ tokens[IndexOf(tokens, key)].expires_at = e
    /\ IsExpired(tokens[IndexOf(tokens, key)], now)

\* C25: a token whose expires_at has passed does not stay in the store for
\* ever when the store is called no more: either the entry is out of the
\* store in the end, or calls go on changing the store.
C25_ExpiredTokenEventuallyRemoved ==
    \A key \in TokenKeys, e \in 1..(MaxTime + MaxTtl) :
        []<>(~HoldsExpired(key, e)) \/ []<><<TRUE>>_tsVars

----------------------------------------------------------------------------
(* The auth routes that use the token store *)

\* token_store.get(key) at the time "at": the store afterwards and the value returned
StoreGet(ts, key, at) ==
    IF key \notin KeysOf(ts) THEN [ts |-> ts, ret |-> None]
    ELSE IF IsExpired(ts[IndexOf(ts, key)], at)
            THEN [ts |-> RemoveAt(ts, IndexOf(ts, key)), ret |-> None]
            ELSE [ts |-> ts, ret |-> ts[IndexOf(ts, key)].token]

\* token_store.delete(key)
StoreDelete(ts, key) ==
    IF key \in KeysOf(ts) THEN RemoveAt(ts, IndexOf(ts, key)) ELSE ts

\* GET /status with X-Session-Id: key; infoOk says whether get_user_info
\* returned the user (it returns None on a non-200 answer and on any exception)
AuthStatus(key, infoOk) ==
    /\ LET g == StoreGet(tokens, key, now) IN
       /\ tokens' = IF g.ret # None /\ ~infoOk THEN StoreDelete(g.ts, key) ELSE g.ts
       /\ tsLast' = [op |-> "status", key |-> key,
                     ret |-> IF g.ret # None /\ infoOk THEN g.ret ELSE None,
                     evicted |-> None, expired |-> FALSE]
    /\ UNCHANGED <<now, NotTS>>

\* POST /logout with X-Session-Id: key (the outcome of revoke_token is not used)
Logout(key) ==
    /\ LET g == StoreGet(tokens, key, now) IN
       /\ tokens' = IF g.ret # None THEN StoreDelete(g.ts, key) ELSE g.ts
       /\ tsLast' = [op |-> "logout", key |-> key, ret |-> None, evicted |-> None,
                     expired |-> FALSE]
    /\ UNCHANGED <<now, NotTS>>

\* POST /device/token stores the token under a new secrets.token_urlsafe(32);
\* GET /user and the git service only get()
NextAuth ==
    \/ \E key \in TokenKeys \ KeysOf(tokens), tok \in AccessTokens, ttl \in 1..MaxTtl :
          TokenSet(key, tok, ttl)
    \/ \E key \in TokenKeys, infoOk \in BOOLEAN : AuthStatus(key, infoOk)
    \/ \E key \in TokenKeys : Logout(key)
    \/ \E key \in TokenKeys : TokenGet(key)
    \/ Tick

SpecAuth == Init /\ [][NextAuth]_vars

\* C26: a token stored under k and not expired after the step is still
\* stored under k, unchanged, after every step other than a logout for k and
\* a set() that evicts k for capacity; an auth-status lookup for k whose
\* user-info call fails is no exception.
C26_TokenStaysUntilLogoutExpiryEviction ==
    [][ \A k \in TokenKeys :
          ( /\ k \in KeysOf(tokens)
            /\ ~IsExpired(tokens[IndexOf(tokens, k)], now')
            /\ ~(tsLast'.op = "logout" /\ tsLast'.key = k)
            /\ ~(tsLast'.op = "set" /\ tsLast'.evicted = k) )
          => /\ k \in KeysOf(tokens')
             /\ tokens'[IndexOf(tokens', k)] = tokens[IndexOf(tokens, k)]
             /\ StoreGet(tokens', k, now').ret = tokens[IndexOf(tokens, k)].token ]_vars

----------------------------------------------------------------------------
(* file_service.pretty_git_status: the lines shown for a "git status -s" *)

\* the paths "git status -s" reports on are numbered 1..MaxPaths
MaxPaths == 5

\* "is_initialization = delete_count > 20", scaled down
DeleteThreshold == 2

\* filepath.split('/')[0] of path p: every third path lies under a system
\* directory, the others under posts/ (none of them is an index.md, so that
\* _get_title gives '')
first_part(p) ==
    IF p % 3 = 0 THEN (IF p % 2 = 0 THEN ".sessions" ELSE ".github") ELSE "posts"

system_paths ==
    {".sessions", ".git", ".github", ".vscode", ".idea", "__pycache__", ".pytest_cache",
     "node_modules", ".env", ".env.local", ".env.*.local"}

\* the first column of a status line, as status.split(maxsplit=1) gives it
StatusFlags == {"D", "M", "??"}

\* the lines of a status that reports flag f[p] on path p, in path order
RECURSIVE LinesFrom(_, _)
LinesFrom(f, p) ==
    IF p > MaxPaths THEN <<>>
    ELSE (IF f[p] = "clean" THEN <<>> ELSE <<[flag |-> f[p], path |-> p]>>)
         \o LinesFrom(f, p + 1)

\* what git_status() can return: at most one line per path
StatusResults == { LinesFrom(f, 1) : f \in [1..MaxPaths -> StatusFlags \cup {"clean"}] }

IsDeletion(s) == s.flag = "D"

\* the word the if/elif chain on flag puts before the path
ShownAs(flag) ==
    IF flag = "M" THEN "Modified"
    ELSE IF flag = "A" THEN "Added"
    ELSE IF flag = "D" THEN "Deleted"
    ELSE IF flag = "??" THEN "Untracked"
    ELSE IF flag = "R" THEN "Renamed"
    ELSE "as is"

\* one round of "for status in status_result": the lines it appends
ShowLine(s, is_initialization) ==
    IF first_part(s.path) \in system_paths THEN <<>>
    ELSE IF is_initialization /\ IsDeletion(s) THEN <<>>
    ELSE <<[shown |-> ShownAs(s.flag), path |-> s.path]>>

RECURSIVE ShowLines(_, _)
ShowLines(status, is_initialization) ==
    IF status = <<>> THEN <<>>
    ELSE ShowLine(Head(status), is_initialization) \o ShowLines(Tail(status), is_initialization)

\* delete_count is taken over the whole of status_result, before the loop
\* that skips the system paths
pretty_git_status(status) ==
    LET delete_count == Len(SelectSeq(status, IsDeletion))
        is_initialization == delete_count > DeleteThreshold
    IN  ShowLines(status, is_initialization)

\* git_commit: "for line in pretty_git_status(status)", with the status that
\* git_status() returned
PrettyGitStatus(status) ==
    /\ status_result' = status
    /\ status_result_for_show' = pretty_git_status(status)
    /\ UNCHANGED NotFs

NextFs == \E status \in StatusResults : PrettyGitStatus(status)

SpecFs == Init /\ [][NextFs]_vars

\* a status line that the system-path filter lets through
Kept(s) == first_part(s.path) \notin system_paths

KeptDeletion(s) == Kept(s) /\ IsDeletion(s)

DeletedLine(l) == l.shown = "Deleted"

RECURSIVE AsDeleted(_)
AsDeleted(status) ==
    IF status = <<>> THEN <<>>
    ELSE <<[shown |-> "Deleted", path |-> Head(status).path]>> \o AsDeleted(Tail(status))

\* C30: pretty_git_status decides on the filtered status: with more than
\* DeleteThreshold deletion lines outside the system paths the result has no
\* "Deleted" line, with DeleteThreshold or fewer it has one "Deleted <path>"
\* line for each of them, and no line of the result is on a system path.
C30_SuppressionDecidedOnFilteredStatus ==
    LET deletions == SelectSeq(status_result, KeptDeletion)
        deleted == SelectSeq(status_result_for_show, DeletedLine)
    IN  /\ Len(deletions) > DeleteThreshold => deleted = <<>>
        /\ Len(deletions) <= DeleteThreshold => deleted = AsDeleted(deletions)
        /\ \A i \in 1..Len(status_result_for_show) :
              first_part(status_result_for_show[i].path) \notin system_paths

\* git_commit: "if not status: return" before it builds commit_cmd
CommitInvoked(status) == status # <<>>

\* git_commit: commit_msg holds "-m", line for each line of pretty_git_status
CommitMessages(status) == pretty_git_status(status)

\* C37: every git commit that git_commit invokes carries at least one -m
\* segment, one for each status line outside the system paths.
C37_CommitHasMessage ==
    CommitInvoked(status_result) =>
        /\ CommitMessages(status_result) # <<>>
        /\ Len(CommitMessages(status_result)) = Len(SelectSeq(status_result, Kept))

----------------------------------------------------------------------------
(* git_add() outside git_operation_lock.  The "def" handlers run on the    *)
(* threads of the thread pool, each with a thread-local of its own, and a  *)
(* thread serves one request after the other; the "async def" handlers run *)
(* on the event-loop thread.  The coroutines of git_service.py run their   *)
(* subprocesses with blocking calls and never await: while a handler is in *)
(* its git section the event-loop thread runs nothing else, the threads of *)
(* the pool do.                                                            *)

\* the event-loop thread is not inside a git pipeline
LoopFree == \A h \in Handlers : handlers[h].pc # "git"

\* git_add() with the thread-local at path, in a request whose
\* setup_git_context set the path set: get_current_cache_path() raises
\* RuntimeError when no path is there, subprocess.run raises when the cwd
\* does not exist, and a failing "git add -A" is answered 500
GitAdd(by, kind, path, set, addOk) ==
    LET started == path # NoPath /\ Exists(disk, path)
    IN  [by |-> by, kind |-> kind, ran |-> started,
         cwd |-> IF started THEN path ELSE NoPath, set |-> set,
         code |-> IF started /\ addOk THEN 200 ELSE 500]

\* GET /posts/changes on thread w: setup_git_context, delete_image_not_included
\* (under POSTS_PATH, outside the workspaces), then git_add(cache_path=...,
\* oauth_session_id=...), which takes no argument: TypeError, answered 500
GetPostChanges(w, sid) ==
    /\ workerPath' = IF HasSession(sid) THEN [workerPath EXCEPT ![w] = sessions[sid].path]
                     ELSE workerPath
    /\ gitRun' = [by |-> w, kind |-> "changes", ran |-> FALSE, cwd |-> NoPath,
                  set |-> IF HasSession(sid) THEN sessions[sid].path ELSE NoPath,
                  code |-> IF sid = NoId THEN 400 ELSE 500]
    /\ UNCHANGED NotPl

\* POST /post/create on thread w: the post is written under POSTS_PATH, then
\* git_add() with whatever the thread-local of w holds
CreatePost(w, addOk) ==
    /\ gitRun' = GitAdd(w, "create_post", workerPath[w], NoPath, addOk)
    /\ UNCHANGED <<workerPath, NotPl>>

\* DELETE /post/{filename} on thread w: 404 when there is no such post,
\* else rmtree and git_add()
DeletePost(w, found, addOk) ==
    /\ gitRun' = IF found THEN GitAdd(w, "delete_post", workerPath[w], NoPath, addOk)
                 ELSE [NoRun EXCEPT !.by = w, !.kind = "delete_post", !.code = 404]
    /\ UNCHANGED <<workerPath, NotPl>>

\* POST /file/upload, to "content = await file.read()": get_session_path and
\* setup_git_context
UploadStart(h, sid) ==
    /\ LoopFree
    /\ handlers[h] = NoRequest
    /\ IF HasSession(sid)
          THEN /\ currentPath' = sessions[sid].path
               /\ handlers' = [handlers EXCEPT ![h] =
                                  [kind |-> "upload", sid |-> sid, path |-> sessions[sid].path,
                                   pc |-> "read"]]
               /\ gitLast' = gitLast
          ELSE /\ gitLast' = IF sid = NoId THEN 400 ELSE 500
               /\ UNCHANGED <<currentPath, handlers>>
    /\ UNCHANGED <<now, smVars, gitLock, NotGit>>

\* POST /file/upload, from the await on: the checks of the content, the file
\* written under base_path, then git_add() with the thread-local of the
\* event-loop thread
UploadFinish(h, contentOk, addOk) ==
    /\ LoopFree
    /\ handlers[h].pc = "read"
    /\ LET path == handlers[h].path
           run == GitAdd("loop", "upload", currentPath, path, addOk)
       IN  /\ gitRun' = IF contentOk THEN run
                        ELSE [NoRun EXCEPT !.by = "loop", !.kind = "upload", !.set = path,
                                           !.code = 400]
           /\ disk' = IF contentOk THEN MakeDirs(disk, path) ELSE disk
    /\ handlers' = [handlers EXCEPT ![h] = NoRequest]
    /\ gitLast' = gitRun'.code
    /\ UNCHANGED <<now, sessions, sessionsFile, nextId, smLast, gitLock, currentPath,
                   workerPath, tsVars, rlVars, oaVars, thVars, wsVars, csVars, fsVars, orVars>>

\* the handlers that run a pipeline of git_service.py with the arguments it
\* takes
PipelineKinds == {"init", "soft_reset"}

NextPl ==
    \/ \E key \in PlainKeys : CreateSession(key, TRUE)
    \/ \E w \in Workers, sid \in 0..MaxIds : GetPostChanges(w, sid)
    \/ \E w \in Workers, addOk \in BOOLEAN : CreatePost(w, addOk)
    \/ \E w \in Workers, found \in BOOLEAN, addOk \in BOOLEAN : DeletePost(w, found, addOk)
    \/ \E h \in Handlers, sid \in 0..MaxIds : UploadStart(h, sid)
    \/ \E h \in Handlers, contentOk \in BOOLEAN, addOk \in BOOLEAN :
          UploadFinish(h, contentOk, addOk)
    \/ \E h \in Handlers, kind \in PipelineKinds, sid \in 1..MaxIds :
          LoopFree /\ Enter(h, kind, sid, "")
    \/ \E h \in Handlers, outcome \in {"no_remote", "http_500"} : GitDone(h, outcome)

SpecPl == Init /\ [][NextPl]_vars

\* C32: a git command is run in the workspace path that setup_git_context set
\* during the same request, never in a path that an earlier request left in
\* the thread-local of the thread.
C32_GitRunsInPathOfOwnRequest == gitRun.ran => gitRun.cwd = gitRun.set

\* C33: while a handler is inside the init or pull pipeline of a workspace,
\* no git_add() of another request starts git in that workspace.
C33_NoGitAddInsidePipeline ==
    [][ \A h \in Handlers :
          (handlers[h].pc = "git" /\ gitRun' # gitRun /\ gitRun'.ran)
             => gitRun'.cwd # handlers[h].path ]_vars

----------------------------------------------------------------------------
(* POST /auth/token: poll_access_token, then the token store *)

\* "token_ttl = 3600", scaled to the largest ttl of the model
TokenTtl == MaxTtl

\* get_access_token from the provider's answer on: poll_access_token returns
\* and, with a token and no error, the handler goes on.  With a state field
\* (stateGiven) it evaluates "device_code.device_code" on a str: AttributeError,
\* answered 500 by "except Exception".  Without one it stores the token under
\* key, a new secrets.token_urlsafe(32), and returns key.
GetAccessToken(p, resp, stateGiven, key) ==
    /\ PollReturn(p, resp)
    /\ key \notin KeysOf(tokens)
    /\ IF oaLast'.token # None /\ oaLast'.error = "" /\ ~stateGiven
          THEN SetTokens(key, oaLast'.token, TokenTtl)
          ELSE UNCHANGED tsVars
    /\ UNCHANGED <<now, smVars, rlVars, gitVars, thVars, wsVars, csVars, fsVars, plVars, orVars>>

NextTok ==
    \/ \E e \in 1..MaxExpires, i \in ProviderIntervals : RequestDeviceCode(e, i)
    \/ \E p \in Pollers, d \in 1..(MaxCodes + 1) : PollStart(p, d)
    \/ \E p \in Pollers, resp \in Responses, stateGiven \in BOOLEAN, key \in TokenKeys :
          GetAccessToken(p, resp, stateGiven, key)
    \/ Tick

SpecTok == Init /\ [][NextTok]_vars

\* C35: whenever poll_access_token returns an access token during POST
\* /auth/token, the step stores that token under a key that was not in the
\* store, with an expiry TokenTtl from now.
C35_TokenFromProviderIsStored ==
    [][ \A p \in Pollers :
          (polls[p] # Idle /\ polls'[p] = Idle /\ oaLast'.token # None)
             => /\ tsLast'.op = "set"
                /\ tsLast'.key \notin KeysOf(tokens)
                /\ tsLast'.key \in KeysOf(tokens')
                /\ LET e == tokens'[IndexOf(tokens', tsLast'.key)]
                   IN  e.token = oaLast'.token /\ e.expires_at = now + TokenTtl ]_vars

====
